---- MODULE Spec2Model ----
(***************************************************************************)
(* A model of the toolchain of deagahelio/vm: the assembler and multi-file *)
(* linker of src/tools/assembler.py and the type-merge helper of the KL    *)
(* compiler in src/tools/kl.py.                                            *)
(*                                                                         *)
(* The assembler is a state machine over the fields of the Assembler       *)
(* object.  One run of `run` is: for every command-line token either a     *)
(* @RELOC (Reloc) or a file (Preprocess, then the assemble loop, one       *)
(* AssembleNode per directive line, then LinkFile), then the final link    *)
(* and the write of the image (Finish).  FinalLinkAgain is a further call  *)
(* of link(final=True) on the same object.                                 *)
(***************************************************************************)
EXTENDS Integers, Sequences, FiniteSets, TLC

(***************************************************************************)
(* Bounds of the model.                                                    *)
(***************************************************************************)
\* label, instruction and data lines over the whole run
MaxNodes == 3
\* input files on the command line
MaxFiles == 2
\* @RELOC tokens on the command line
MaxRelocs == 1

\* the symbol names the input files use
Symbols == {"f", "g"}
\* the origins the @RELOC tokens name
Origins == {512}
\* the .export and .import lines of a file: what preprocess collects
Pragmas ==
    { [exports |-> {}, imports |-> {}],
      [exports |-> {"f"}, imports |-> {}],
      [exports |-> {}, imports |-> Symbols] }

(***************************************************************************)
(* Bytes and struct.pack                                                   *)
(***************************************************************************)
RECURSIVE BitOr(_, _)
\* Python's a | b on non-negative integers
BitOr(a, b) ==
    IF a = 0 THEN b
    ELSE IF b = 0 THEN a
    ELSE (IF a % 2 = 1 \/ b % 2 = 1 THEN 1 ELSE 0) + 2 * BitOr(a \div 2, b \div 2)

\* A 32-bit value is kept as its two 16-bit halves [hi, lo], every number of
\* the model staying below 2^31.
Word32(n) == [hi |-> n \div 65536, lo |-> n % 65536]

\* 0xFFFFFFFF
Placeholder == [hi |-> 65535, lo |-> 65535]

\* the four little-endian bytes of a 32-bit value
LE32(w) == << w.lo % 256, w.lo \div 256, w.hi % 256, w.hi \div 256 >>

\* struct.pack("<I", w)
PackU32(w) == LE32(w)

\* struct.pack("<i", v), -2^31 <= v < 2^31: the two's complement of v
PackI32(v) ==
    IF v >= 0 THEN LE32(Word32(v))
    ELSE LE32([hi |-> 65535 - ((-v - 1) \div 65536), lo |-> 65535 - ((-v - 1) % 65536)])

\* struct.pack(">H", w), the high byte first
PackU16BigEndian(w) == << w.lo \div 256, w.lo % 256 >>

\* struct.pack("<H", w), w below 2^16
PackU16(w) == << w.lo % 256, w.lo \div 256 >>

\* struct.pack("<B", w), w below 2^8
PackU8(w) == << w.lo >>

\* bs repeated n times (Python's bytes * n)
RECURSIVE Repeat(_, _)
Repeat(bs, n) == IF n <= 0 THEN << >> ELSE bs \o Repeat(bs, n - 1)

(***************************************************************************)
(* The opcode table                                                        *)
(***************************************************************************)
Op(shape, bytes) == [operands |-> shape, opcode |-> bytes]

INSTRUCTIONS ==
    ("nop" :> Op("", <<0>>)) @@
    ("add" :> Op("rr", <<1>>)) @@ ("sub" :> Op("rr", <<2>>)) @@
    ("mul" :> Op("rr", <<3>>)) @@ ("div" :> Op("rr", <<4>>)) @@
    ("and" :> Op("rr", <<5>>)) @@ ("or" :> Op("rr", <<6>>)) @@
    ("xor" :> Op("rr", <<7>>)) @@ ("shl" :> Op("rr", <<8>>)) @@
    ("shr" :> Op("rr", <<9>>)) @@ ("stb" :> Op("rr", <<10>>)) @@
    ("stw" :> Op("rr", <<11>>)) @@ ("std" :> Op("rr", <<12>>)) @@
    ("ldb" :> Op("rr", <<13>>)) @@ ("ldw" :> Op("rr", <<14>>)) @@
    ("ldd" :> Op("rr", <<15>>)) @@
    ("addi" :> Op("ir", <<16, 16>>)) @@ ("subi" :> Op("ir", <<16, 32>>)) @@
    ("muli" :> Op("ir", <<16, 48>>)) @@ ("divi" :> Op("ir", <<16, 64>>)) @@
    ("andi" :> Op("ir", <<16, 80>>)) @@ ("ori" :> Op("ir", <<16, 96>>)) @@
    ("xori" :> Op("ir", <<16, 112>>)) @@ ("shli" :> Op("ir", <<16, 128>>)) @@
    ("shri" :> Op("ir", <<16, 144>>)) @@
    ("stbi" :> Op("ri", <<16, 160>>)) @@ ("stwi" :> Op("ri", <<16, 176>>)) @@
    ("stdi" :> Op("ri", <<16, 192>>)) @@
    ("ldbi" :> Op("ir", <<16, 208>>)) @@ ("ldwi" :> Op("ir", <<16, 224>>)) @@
    ("lddi" :> Op("ir", <<16, 240>>)) @@
    ("push" :> Op("r", <<32, 16>>)) @@ ("pop" :> Op("r", <<32, 32>>)) @@
    ("j" :> Op("r", <<32, 48>>)) @@ ("jt" :> Op("r", <<32, 64>>)) @@
    ("jf" :> Op("r", <<32, 80>>)) @@ ("call" :> Op("r", <<32, 144>>)) @@
    ("pushi" :> Op("i", <<33>>)) @@ ("ji" :> Op("i", <<35>>)) @@
    ("jti" :> Op("i", <<36>>)) @@ ("jfi" :> Op("i", <<37>>)) @@
    ("calli" :> Op("i", <<41>>)) @@
    ("cgtq" :> Op("rr", <<42>>)) @@ ("cltq" :> Op("rr", <<43>>)) @@
    ("ceq" :> Op("rr", <<44>>)) @@ ("cnq" :> Op("rr", <<45>>)) @@
    ("cgt" :> Op("rr", <<46>>)) @@ ("clt" :> Op("rr", <<47>>)) @@
    ("movi" :> Op("ir", <<48, 16>>)) @@ ("bal" :> Op("r", <<48, 96>>)) @@
    ("cgtqi" :> Op("ri", <<48, 160>>)) @@ ("cltqi" :> Op("ri", <<48, 176>>)) @@
    ("ceqi" :> Op("ri", <<48, 192>>)) @@ ("cnqi" :> Op("ri", <<48, 208>>)) @@
    ("cgti" :> Op("ri", <<48, 224>>)) @@ ("clti" :> Op("ri", <<48, 240>>)) @@
    ("mov" :> Op("rr", <<49>>)) @@
    ("stbii" :> Op("ii", <<50>>)) @@ ("stwii" :> Op("ii", <<51>>)) @@
    ("stdii" :> Op("ii", <<52>>)) @@
    ("ret" :> Op("", <<53>>)) @@ ("syscall" :> Op("", <<64>>)) @@
    ("iret" :> Op("", <<65>>)) @@ ("cli" :> Op("", <<66>>)) @@
    ("sti" :> Op("", <<67>>))

(***************************************************************************)
(* Parsed directive lines.  A node is                                      *)
(*   [data, name, regs, imms, amount]                                      *)
(* data: "i_<mnemonic>", "label_line" or "d_byte"/"d_word"/"d_dword";      *)
(* name: the label of a label_line; regs: the register operands in source  *)
(* order; imms: the immediate operands in source order; amount: the count  *)
(* of a data directive, -1 when the line gives none.  An immediate is      *)
(*   [data, sym, num]: data "label" with the symbol, or "number" with its  *)
(* value (hex, binary and character operands read to a number likewise).   *)
(***************************************************************************)
Lbl(s) == [data |-> "label", sym |-> s, num |-> 0]
Num(n) == [data |-> "number", sym |-> "", num |-> n]

Instr(mn, regs, imms) ==
    [data |-> "i_" \o mn, mn |-> mn, name |-> "", regs |-> regs, imms |-> imms, amount |-> -1]
LabelLine(s) ==
    [data |-> "label_line", mn |-> "", name |-> s, regs |-> << >>, imms |-> << >>, amount |-> -1]
Data(kind, imm, amount) ==
    [data |-> kind, mn |-> "", name |-> "", regs |-> << >>, imms |-> <<imm>>, amount |-> amount]

IsInstr(node) == node.mn # ""

\* the label, instruction and data lines the input files are made of
Nodes ==
    { LabelLine(s) : s \in Symbols }
    \cup { Instr("calli", << >>, <<Lbl("f")>>),
           Instr("stdi", <<3>>, <<Lbl("g")>>),
           Instr("stdii", << >>, <<Lbl("f"), Lbl("g")>>),
           Instr("push", <<12>>, << >>),
           Data("d_dword", Lbl("f"), 0) }

(***************************************************************************)
(* Assembler state                                                         *)
(***************************************************************************)
VARIABLES
    code,               \* self.code: the image, a sequence of bytes
    global_symbols_def, \* self.global_symbols_def: symbol -> absolute address
    global_symbols_use, \* self.global_symbols_use: buffer offset -> {pos, symbol}
    symbols_def,        \* self.symbols_def
    symbols_use,        \* self.symbols_use
    to_import,          \* self.to_import (only membership is read)
    to_export,          \* self.to_export (only membership is read)
    pos_offset,         \* self.pos_offset
    stderr,             \* the lines click.echo(..., err=True) has printed
    output,             \* what output.write has written, <<"none">> before
    pc,                 \* where `run` stands
    nfiles, nnodes, nrelocs,  \* what the run has consumed so far
    raw,                \* history: the bytes as the assemble loop appended them
    sites,              \* history: the 4-byte field of every symbol-reference immediate
    labels,             \* history: every label recorded, with the buffer offset it stands at
    files,              \* history: per linked file, its tables at its link
    final_errs,         \* history: the lines the first final link printed
    final_pass,         \* history: the image before the first final link, and its writes
    marks,              \* history: per @RELOC token, its origin and the image length then
    assembled           \* history: the line assemble took last, and the buffer length it met

VARIABLES
    mt_mode,            \* Compiler.type_checking of the call of merge_types
    mt_l, mt_r,         \* the arguments l and r of the call
    mt_pc,              \* "call" before the call, then "returned" or "raised"
    mt_result           \* what the call returned, or the CompileError's message

VARIABLES
    k_src,   \* the texts of the files of the command line, in order
    k_f,     \* the number of the file the loop of run stands at
    k_ast,   \* ast: parse(code) of that file
    k_comp,  \* compiler: the Compiler object of run
    k_pc,    \* where run stands: open, definitions, emission, done, exit, idle
    k_i,     \* the number of the top-level node the loop of compile stands at
    k_out,   \* the texts written to the .out files, in order
    k_hist,  \* history: the Compiler object as each definitions pass ended
    vm_pc,    \* the machine: the line of the output it is at, 0 when it is not running
    vm_stack, \* the machine: the slots from the stack base to the address in $15
    vm_fp     \* the machine: the slot $12 points to, counted from the base

mtvars == << mt_mode, mt_l, mt_r, mt_pc, mt_result >>

ccvars == << k_src, k_f, k_ast, k_comp, k_pc, k_i, k_out, k_hist >>

vmvars == << vm_pc, vm_stack, vm_fp >>

klvars == << mtvars, ccvars, vmvars >>

asmvars == << code, global_symbols_def, global_symbols_use, symbols_def, symbols_use,
              to_import, to_export, pos_offset, stderr, output, pc,
              nfiles, nnodes, nrelocs, raw, sites, labels, files, final_errs,
              final_pass, marks, assembled >>

vars == << asmvars, klvars >>

(***************************************************************************)
(* Python dicts.  A dict is the sequence of its items [k, v] in insertion  *)
(* order, which is the order `for ... in d.items()` visits them.           *)
(***************************************************************************)
EmptyDict == << >>

DictHas(d, k) == \E i \in 1..Len(d) : d[i].k = k

DictGet(d, k) == d[CHOOSE i \in 1..Len(d) : d[i].k = k].v

\* d[k] = v: a key already present keeps its place and takes the new value
DictPut(d, k, v) ==
    IF DictHas(d, k)
    THEN [i \in 1..Len(d) |-> IF d[i].k = k THEN [k |-> k, v |-> v] ELSE d[i]]
    ELSE Append(d, [k |-> k, v |-> v])


InitAsm ==
    /\ code = << >>
    /\ global_symbols_def = EmptyDict
    /\ global_symbols_use = EmptyDict
    /\ symbols_def = EmptyDict
    /\ symbols_use = EmptyDict
    /\ to_import = {}
    /\ to_export = {}
    /\ pos_offset = 0
    /\ stderr = << >>
    /\ output = <<"none">>
    /\ pc = "run"
    /\ nfiles = 0 /\ nnodes = 0 /\ nrelocs = 0
    /\ raw = << >>
    /\ sites = {}
    /\ labels = {}
    /\ files = << >>
    /\ final_errs = << >>
    /\ final_pass = [before |-> << >>, writes |-> << >>]
    /\ marks = << >>
    /\ assembled = << >>

(***************************************************************************)
(* Assembler.read_imm                                                      *)
(***************************************************************************)
\* the value read_imm returns: the placeholder 0xFFFFFFFF for a symbol
ReadImmValue(imm) == IF imm.data = "label" THEN Placeholder ELSE Word32(imm.num)

\* symbols_use after read_imm(imm), called while the buffer holds codelen bytes
ReadImmUse(imm, uses, codelen, off) ==
    IF imm.data = "label"
    THEN DictPut(uses, codelen, [pos |-> codelen + off, symbol |-> imm.sym])
    ELSE uses

(***************************************************************************)
(* Assembler.assemble, one directive line                                  *)
(***************************************************************************)
\* the register left out of the opcode
OrLastSkipped(c, r1) == c

\* self.code[-1] = self.code[-1] | r1
OrLast(c, r1) == [c EXCEPT ![Len(c)] = BitOr(@, r1)]

\* an instruction line: the buffer and symbols_use after it
AssembleInstr(node, c, uses, off) ==
    LET instruction == INSTRUCTIONS[node.mn]
        c1 == c \o instruction.opcode
        n1 == Len(c1)
        shape == instruction.operands
    IN CASE shape = "rr" ->
              [code |-> Append(c1, BitOr(node.regs[1] * 16, node.regs[2])),
               use |-> uses]
         [] shape = "ri" ->
              [code |-> OrLast(c1, node.regs[1]) \o PackU32(ReadImmValue(node.imms[1])),
               use |-> ReadImmUse(node.imms[1], uses, n1, off)]
         [] shape = "ir" ->
              [code |-> OrLast(c1, node.regs[1]) \o PackU32(ReadImmValue(node.imms[1])),
               use |-> ReadImmUse(node.imms[1], uses, n1, off)]
         [] shape = "r" ->
              [code |-> OrLast(c1, node.regs[1]), use |-> uses]
         [] shape = "i" ->
              [code |-> c1 \o PackU32(ReadImmValue(node.imms[1])),
               use |-> ReadImmUse(node.imms[1], uses, n1, off)]
         [] shape = "ii" ->
              \* both read_imm calls run before either immediate is appended
              [code |-> c1 \o PackU32(ReadImmValue(node.imms[1]))
                          \o PackU32(ReadImmValue(node.imms[2])),
               use |-> ReadImmUse(node.imms[2],
                                  ReadImmUse(node.imms[1], uses, n1, off), n1, off)]
         [] OTHER -> [code |-> c1, use |-> uses]

\* struct.pack("<" + format, v) of a data directive
PackData(kind, v) ==
    CASE kind = "d_byte" -> PackU8(v)
      [] kind = "d_word" -> PackU16(v)
      [] OTHER -> PackU32(v)

\* a data directive: the buffer and symbols_use after it
AssembleData(node, c, uses, off) ==
    LET amount == IF node.amount = -1 THEN 1 ELSE node.amount
    IN [code |-> c \o Repeat(PackData(node.data, ReadImmValue(node.imms[1])), amount),
        use |-> ReadImmUse(node.imms[1], uses, Len(c), off)]

\* the buffer offsets at which the line appends the 4 bytes of a
\* symbol-reference immediate (struct.pack of the value read_imm returned),
\* with their symbols; a data directive appends its operand `amount` times
ImmFields(node, c) ==
    IF IsInstr(node)
    THEN LET base == Len(c) + Len(INSTRUCTIONS[node.mn].opcode)
         IN { [off |-> base + 4 * (i - 1), symbol |-> node.imms[i].sym] :
                  i \in { j \in 1..Len(node.imms) : node.imms[j].data = "label" } }
    ELSE LET amount == IF node.amount = -1 THEN 1 ELSE node.amount
         IN { [off |-> Len(c) + 4 * (i - 1), symbol |-> node.imms[1].sym] :
                  i \in { j \in 1..amount : node.imms[1].data = "label" } }

Err(msg, symbol) == [msg |-> msg, symbol |-> symbol]

(***************************************************************************)
(* Assembler.link                                                          *)
(***************************************************************************)
\* history of one slice assignment of link: the key of the use, the buffer
\* index written at, and the bytes
Write(key, at, bytes) == [key |-> key, at |-> at, bytes |-> bytes]

\* a link that inserts the address at real_pos: c[real_pos:real_pos] = bytes
PatchInsert(c, real_pos, bytes) ==
    LET lo == IF real_pos < Len(c) THEN real_pos ELSE Len(c)
    IN SubSeq(c, 1, lo) \o bytes \o SubSeq(c, lo + 1, Len(c))

\* c[real_pos:real_pos+4] = bytes (Python slice assignment: the slice is
\* clamped to the buffer, the bytes take its place)
PatchAt(c, real_pos, bytes) ==
    LET lo == IF real_pos < Len(c) THEN real_pos ELSE Len(c)
        hi == IF real_pos + 4 < Len(c) THEN real_pos + 4 ELSE Len(c)
    IN SubSeq(c, 1, lo) \o bytes \o SubSeq(c, hi + 1, Len(c))

RECURSIVE LinkUsesAtPos(_, _, _, _, _, _)
\* a link that indexes the buffer with the absolute address of the use
LinkUsesAtPos(i, uses, defs, imports, final, acc) ==
    IF i > Len(uses) THEN acc
    ELSE LET symbol_use == uses[i].v
             next ==
                 IF DictHas(defs, symbol_use.symbol)
                 THEN [acc EXCEPT
                          !.code = PatchAt(@, symbol_use.pos,
                                           PackI32(DictGet(defs, symbol_use.symbol))),
                          !.log = Append(@, Write(uses[i].k, symbol_use.pos,
                                                  PackI32(DictGet(defs, symbol_use.symbol))))]
                 ELSE IF symbol_use.symbol \in imports /\ ~final
                 THEN [acc EXCEPT !.guse = DictPut(@, uses[i].k, symbol_use)]
                 ELSE [acc EXCEPT !.err = Append(@, Err("unresolved symbol", symbol_use.symbol))]
         IN LinkUsesAtPos(i + 1, uses, defs, imports, final, next)

RECURSIVE LinkUsesStop(_, _, _, _, _, _)
\* a link that gives up at the first unresolved use (break for continue)
LinkUsesStop(i, uses, defs, imports, final, acc) ==
    IF i > Len(uses) THEN acc
    ELSE LET real_pos == uses[i].k
             symbol_use == uses[i].v
         IN IF DictHas(defs, symbol_use.symbol)
            THEN LinkUsesStop(i + 1, uses, defs, imports, final,
                     [acc EXCEPT
                         !.code = PatchAt(@, real_pos,
                                          PackI32(DictGet(defs, symbol_use.symbol))),
                         !.log = Append(@, Write(real_pos, real_pos,
                                                 PackI32(DictGet(defs, symbol_use.symbol))))])
            ELSE IF symbol_use.symbol \in imports /\ ~final
            THEN LinkUsesStop(i + 1, uses, defs, imports, final,
                     [acc EXCEPT !.guse = DictPut(@, real_pos, symbol_use)])
            ELSE [acc EXCEPT !.err = Append(@, Err("unresolved symbol", symbol_use.symbol))]

RECURSIVE LinkUses(_, _, _, _, _, _)
\* the loop over symbols_use.items() from item i on; acc is [code, guse, err]
\* and the log of the slice assignments the loop has made
LinkUses(i, uses, defs, imports, final, acc) ==
    IF i > Len(uses) THEN acc
    ELSE LET real_pos == uses[i].k
             symbol_use == uses[i].v
             next ==
                 IF DictHas(defs, symbol_use.symbol)
                 THEN [acc EXCEPT
                          !.code = PatchAt(@, real_pos,
                                           PackI32(DictGet(defs, symbol_use.symbol))),
                          !.log = Append(@, Write(real_pos, real_pos,
                                                  PackI32(DictGet(defs, symbol_use.symbol))))]
                 ELSE IF symbol_use.symbol \in imports /\ ~final
                 THEN [acc EXCEPT !.guse = DictPut(@, real_pos, symbol_use)]
                 ELSE [acc EXCEPT !.err = Append(@, Err("unresolved symbol", symbol_use.symbol))]
         IN LinkUses(i + 1, uses, defs, imports, final, next)

RECURSIVE LinkExportsOverwrite(_, _, _, _)
\* a link that publishes an export without looking for an earlier one
LinkExportsOverwrite(i, defs, exports, acc) ==
    IF i > Len(defs) THEN acc
    ELSE LinkExportsOverwrite(i + 1, defs, exports,
             IF defs[i].k \in exports
             THEN [acc EXCEPT !.gdef = DictPut(@, defs[i].k, defs[i].v)]
             ELSE acc)

RECURSIVE LinkExports(_, _, _, _)
\* the loop over symbols_def.items() from item i on; acc is [gdef, err]
LinkExports(i, defs, exports, acc) ==
    IF i > Len(defs) THEN acc
    ELSE LET symbol == defs[i].k
             pos_def == defs[i].v
             next ==
                 IF symbol \in exports
                 THEN IF DictHas(acc.gdef, symbol)
                      THEN [acc EXCEPT !.err = Append(@, Err("duplicate symbol", symbol))]
                      ELSE [acc EXCEPT !.gdef = DictPut(@, symbol, pos_def)]
                 ELSE acc
         IN LinkExports(i + 1, defs, exports, next)

(***************************************************************************)
(* The run: one action per command-line token, loop step and call          *)
(***************************************************************************)
\* a @RELOC that takes the origin as the offset, whatever the image holds
RelocNoRebase(origin) ==
    /\ pc = "run"
    /\ nrelocs < MaxRelocs
    /\ nfiles < MaxFiles
    /\ pos_offset' = origin
    /\ nrelocs' = nrelocs + 1
    /\ marks' = Append(marks, [origin |-> origin, n |-> Len(code)])
    /\ UNCHANGED << code, global_symbols_def, global_symbols_use, symbols_def,
                    symbols_use, to_import, to_export, stderr, output, pc,
                    nfiles, nnodes, raw, sites, labels, files, final_errs,
                    final_pass, assembled >>
    /\ UNCHANGED klvars

\* @RELOC:<origin>
Reloc(origin) ==
    /\ pc = "run"
    /\ nrelocs < MaxRelocs
    /\ nfiles < MaxFiles
    /\ pos_offset' = origin - Len(code)
    /\ nrelocs' = nrelocs + 1
    /\ marks' = Append(marks, [origin |-> origin, n |-> Len(code)])
    /\ UNCHANGED << code, global_symbols_def, global_symbols_use, symbols_def,
                    symbols_use, to_import, to_export, stderr, output, pc,
                    nfiles, nnodes, raw, sites, labels, files, final_errs,
                    final_pass, assembled >>
    /\ UNCHANGED klvars

\* a file token: preprocess resets the per-file tables and collects the
\* file's .export and .import lines
Preprocess(pragmas) ==
    /\ pc = "run"
    /\ nfiles < MaxFiles
    /\ symbols_def' = EmptyDict
    /\ symbols_use' = EmptyDict
    /\ to_import' = pragmas.imports
    /\ to_export' = pragmas.exports
    /\ nfiles' = nfiles + 1
    /\ pc' = "preprocessed"
    /\ UNCHANGED << code, global_symbols_def, global_symbols_use, pos_offset, stderr,
                    output, nnodes, nrelocs, raw, sites, labels, files, final_errs,
                    final_pass, marks, assembled >>
    /\ UNCHANGED klvars

\* assemble, one pass of its loop over a label, instruction or data line
AssembleNode(node) ==
    /\ pc \in {"preprocessed", "assemble"}
    /\ nnodes < MaxNodes
    /\ nnodes' = nnodes + 1
    /\ pc' = "assemble"
    /\ IF node.data = "label_line"
       THEN /\ IF DictHas(symbols_def, node.name)
               THEN /\ stderr' = Append(stderr, Err("duplicate symbol", node.name))
                    /\ UNCHANGED symbols_def
                    /\ UNCHANGED labels
               ELSE /\ symbols_def' = DictPut(symbols_def, node.name, Len(code) + pos_offset)
                    /\ labels' = labels \cup { [name |-> node.name, k |-> Len(code),
                                                file |-> nfiles, nrelocs |-> nrelocs] }
                    /\ UNCHANGED stderr
            /\ UNCHANGED << code, symbols_use, raw, sites >>
       ELSE LET res == IF IsInstr(node)
                       THEN AssembleInstr(node, code, symbols_use, pos_offset)
                       ELSE AssembleData(node, code, symbols_use, pos_offset)
            IN /\ code' = res.code
               /\ symbols_use' = res.use
               /\ raw' = raw \o SubSeq(res.code, Len(code) + 1, Len(res.code))
               /\ sites' = sites \cup { [off |-> fld.off, symbol |-> fld.symbol, file |-> nfiles] :
                                            fld \in ImmFields(node, code) }
               /\ UNCHANGED << symbols_def, stderr, labels >>
    /\ UNCHANGED << global_symbols_def, global_symbols_use, to_import, to_export,
                    pos_offset, output, nfiles, nrelocs, files, final_errs, final_pass, marks >>
    /\ assembled' = << [node |-> node, at |-> Len(code)] >>
    /\ UNCHANGED klvars

\* assembler.link() after the file's assemble
LinkFile ==
    /\ pc = "assemble"
    /\ LET u == LinkUses(1, symbols_use, symbols_def, to_import, FALSE,
                         [code |-> code, guse |-> global_symbols_use, err |-> stderr,
                          log |-> << >>])
           e == LinkExports(1, symbols_def, to_export,
                            [gdef |-> global_symbols_def, err |-> u.err])
       IN /\ code' = u.code
          /\ global_symbols_use' = u.guse
          /\ global_symbols_def' = e.gdef
          /\ stderr' = e.err
          /\ files' = Append(files, [defs |-> symbols_def, uses |-> symbols_use,
                                     exports |-> to_export, imports |-> to_import,
                                     off |-> pos_offset,
                                     before |-> code, after |-> u.code,
                                     writes |-> u.log,
                                     errs |-> SubSeq(e.err, Len(stderr) + 1, Len(e.err))])
    /\ pc' = "run"
    /\ UNCHANGED << symbols_def, symbols_use, to_import, to_export, pos_offset, output,
                    nfiles, nnodes, nrelocs, raw, sites, labels, final_errs, final_pass,
                    marks, assembled >>
    /\ UNCHANGED klvars

\* the end of run: assembler.link(final=True), then output.write
Finish ==
    /\ pc = "run"
    /\ LET u == LinkUses(1, global_symbols_use, global_symbols_def, to_import, TRUE,
                         [code |-> code, guse |-> global_symbols_use, err |-> stderr,
                          log |-> << >>])
       IN /\ code' = u.code
          /\ stderr' = u.err
          /\ output' = u.code
          /\ final_errs' = SubSeq(u.err, Len(stderr) + 1, Len(u.err))
          /\ final_pass' = [before |-> code, writes |-> u.log]
    /\ symbols_def' = global_symbols_def
    /\ symbols_use' = global_symbols_use
    /\ pc' = "done"
    /\ UNCHANGED << global_symbols_def, global_symbols_use, to_import, to_export,
                    pos_offset, nfiles, nnodes, nrelocs, raw, sites, labels, files, marks, assembled >>
    /\ UNCHANGED klvars

\* link(final=True) called once more on the assembler the run leaves
FinalLinkAgain ==
    /\ pc = "done"
    /\ LET u == LinkUses(1, global_symbols_use, global_symbols_def, to_import, TRUE,
                         [code |-> code, guse |-> global_symbols_use, err |-> stderr,
                          log |-> << >>])
       IN /\ code' = u.code
          /\ stderr' = u.err
    /\ symbols_def' = global_symbols_def
    /\ symbols_use' = global_symbols_use
    /\ pc' = "relinked"
    /\ UNCHANGED << global_symbols_def, global_symbols_use, to_import, to_export,
                    pos_offset, output, nfiles, nnodes, nrelocs, raw, sites, labels, files,
                    final_errs, final_pass, marks, assembled >>
    /\ UNCHANGED klvars

Next ==
    \/ \E origin \in Origins : Reloc(origin)
    \/ \E pragmas \in Pragmas : Preprocess(pragmas)
    \/ \E node \in Nodes : AssembleNode(node)
    \/ LinkFile
    \/ Finish
    \/ FinalLinkAgain

(***************************************************************************)
(* The KL compiler's type-merge helper, Compiler.merge_types               *)
(***************************************************************************)
UNSIGNED_INT_TYPES == <<"uint8", "uint16", "uint32">>

SIGNED_INT_TYPES == <<"int8", "int16", "int32">>

INT_TYPES == UNSIGNED_INT_TYPES \o SIGNED_INT_TYPES

TYPE_SIZES ==
    ("uint8" :> 1) @@ ("uint16" :> 2) @@ ("uint32" :> 4) @@
    ("int8" :> 1) @@ ("int16" :> 2) @@ ("int32" :> 4)

\* x in list
InList(x, list) == \E i \in 1..Len(list) : list[i] = x

\* list.index(x)
Index(list, x) == CHOOSE i \in 1..Len(list) : list[i] = x /\ \A j \in 1..(i - 1) : list[j] # x

\* max(l, r, key=list.index): the first of the two with the greatest key
MaxByIndex(l, r, list) == IF Index(list, r) > Index(list, l) THEN r ELSE l

Returned(t) == [kind |-> "return", value |-> t]

Raised(msg) == [kind |-> "raise", value |-> msg]

\* merge_types that answers a literal on the left with the literal's type
merge_types_literal_wins(type_checking, l, r) ==
    IF type_checking = "off" THEN Returned("None")
    ELSE IF l = r THEN Returned(l)
    ELSE IF l = "int" /\ InList(r, INT_TYPES) THEN Returned(l)
    ELSE IF InList(l, INT_TYPES) /\ r = "int" THEN Returned(l)
    ELSE IF type_checking = "loose" /\ InList(l, UNSIGNED_INT_TYPES)
            /\ InList(r, UNSIGNED_INT_TYPES)
    THEN Returned(MaxByIndex(l, r, UNSIGNED_INT_TYPES))
    ELSE IF type_checking = "loose" /\ InList(l, SIGNED_INT_TYPES)
            /\ InList(r, SIGNED_INT_TYPES)
    THEN Returned(MaxByIndex(l, r, SIGNED_INT_TYPES))
    ELSE Raised("cannot merge types")

\* merge_types that answers two integers of one signedness with the left one
merge_types_left_wins(type_checking, l, r) ==
    IF type_checking = "off" THEN Returned("None")
    ELSE IF l = r THEN Returned(l)
    ELSE IF l = "int" /\ InList(r, INT_TYPES) THEN Returned(r)
    ELSE IF InList(l, INT_TYPES) /\ r = "int" THEN Returned(l)
    ELSE IF type_checking = "loose" /\ InList(l, UNSIGNED_INT_TYPES)
            /\ InList(r, UNSIGNED_INT_TYPES)
    THEN Returned(l)
    ELSE IF type_checking = "loose" /\ InList(l, SIGNED_INT_TYPES)
            /\ InList(r, SIGNED_INT_TYPES)
    THEN Returned(l)
    ELSE Raised("cannot merge types")

\* merge_types that in loose mode also merges a signed with an unsigned type
merge_types_mixed_signs(type_checking, l, r) ==
    IF type_checking = "off" THEN Returned("None")
    ELSE IF l = r THEN Returned(l)
    ELSE IF l = "int" /\ InList(r, INT_TYPES) THEN Returned(r)
    ELSE IF InList(l, INT_TYPES) /\ r = "int" THEN Returned(l)
    ELSE IF type_checking = "loose" /\ InList(l, INT_TYPES) /\ InList(r, INT_TYPES)
    THEN Returned(MaxByIndex(l, r, INT_TYPES))
    ELSE Raised("cannot merge types")

\* Compiler.merge_types(l, r, node) under self.type_checking
merge_types(type_checking, l, r) ==
    IF type_checking = "off" THEN Returned("None")
    ELSE IF l = r THEN Returned(l)
    ELSE IF l = "int" /\ InList(r, INT_TYPES) THEN Returned(r)
    ELSE IF InList(l, INT_TYPES) /\ r = "int" THEN Returned(l)
    ELSE IF type_checking = "loose" /\ InList(l, UNSIGNED_INT_TYPES)
            /\ InList(r, UNSIGNED_INT_TYPES)
    THEN Returned(MaxByIndex(l, r, UNSIGNED_INT_TYPES))
    ELSE IF type_checking = "loose" /\ InList(l, SIGNED_INT_TYPES)
            /\ InList(r, SIGNED_INT_TYPES)
    THEN Returned(MaxByIndex(l, r, SIGNED_INT_TYPES))
    ELSE Raised("cannot merge types")

\* the type-checking modes of the command line
Modes == {"strict", "loose", "off"}

\* the type names merge_types is called with: the integer types, the literal
\* type int, void and one more declared type word
TypeNames == { INT_TYPES[i] : i \in 1..Len(INT_TYPES) } \cup {"int", "void", "point"}

(***************************************************************************)
(* The KL compiler: source text and parse                                  *)
(*                                                                         *)
(* A Node(value, type, line, col) is the record [type, word, num, kids,    *)
(* line, col]: `value` is `word` for a word node, `num` for an int node    *)
(* and `kids` for a list node.                                             *)
(***************************************************************************)
Node(type, word, num, kids, line, col) ==
    [type |-> type, word |-> word, num |-> num, kids |-> kids, line |-> line, col |-> col]

ListNode(kids, line, col) == Node("list", "", 0, kids, line, col)

IntNode(num, line, col) == Node("int", "", num, << >>, line, col)

WordNode(word, line, col) == Node("word", word, 0, << >>, line, col)

\* None, where the parser has no current node
NoNode == Node("none", "", 0, << >>, 0, 0)

\* an id made of the line of the node alone
NodeIdOfLine(node) == ToString(node.line)

\* Node.id
NodeId(node) == ToString(node.line) \o "_" \o ToString(node.col)

\* the character number i of a text, from 1
CharAt(text, i) == SubSeq(text, i, i)

\* the printable ASCII characters of codes 32 to 95, and of codes 97 to 126
\* (a string of the model cannot hold the character of code 96)
AsciiLow ==
    " !\"#$%&'()*+,-./0123456789:;<=>?@ABCDEFGHIJKLMNOPQRSTUVWXYZ[\\]^_"

AsciiHigh == "abcdefghijklmnopqrstuvwxyz{|}~"

\* ord(char)
Ord(char) ==
    IF char = "\n" THEN 10
    ELSE IF char = "\t" THEN 9
    ELSE IF char = "\r" THEN 13
    ELSE IF \E i \in 1..Len(AsciiLow) : CharAt(AsciiLow, i) = char
    THEN 31 + (CHOOSE i \in 1..Len(AsciiLow) : CharAt(AsciiLow, i) = char)
    ELSE 96 + (CHOOSE i \in 1..Len(AsciiHigh) : CharAt(AsciiHigh, i) = char)

\* chr(code)
Chr(ordinal) ==
    IF ordinal = 10 THEN "\n"
    ELSE IF ordinal = 9 THEN "\t"
    ELSE IF ordinal = 13 THEN "\r"
    ELSE IF ordinal < 96 THEN CharAt(AsciiLow, ordinal - 31)
    ELSE CharAt(AsciiHigh, ordinal - 96)

Digits == "0123456789abcdef"

\* a character in lower case, for the letters of the hexadecimal digits
LowerDigit(char) ==
    IF \E i \in 11..16 : CharAt("0123456789ABCDEF", i) = char
    THEN CharAt(Digits, CHOOSE i \in 11..16 : CharAt("0123456789ABCDEF", i) = char)
    ELSE char

DigitIndex(lower, base) ==
    IF \E i \in 1..base : CharAt(Digits, i) = lower
    THEN (CHOOSE i \in 1..base : CharAt(Digits, i) = lower) - 1
    ELSE -1

\* the value of a digit character in the base, -1 when it is none
DigitValue(char, base) == DigitIndex(LowerDigit(char), base)

RECURSIVE DigitsValue(_, _, _, _)
RECURSIVE DigitsAfter(_, _, _, _, _)
\* the number the digits text[i..] spell in the base after acc, -1 when a
\* character is no digit of the base
DigitsValue(text, i, base, acc) ==
    IF i > Len(text) THEN acc
    ELSE DigitsAfter(text, i, base, acc, DigitValue(CharAt(text, i), base))

DigitsAfter(text, i, base, acc, digit) ==
    IF digit = -1 THEN -1 ELSE DigitsValue(text, i + 1, base, acc * base + digit)

\* the base the first two characters of a literal give
BaseOf(text) ==
    CASE Len(text) >= 2 /\ SubSeq(text, 1, 2) \in {"0x", "0X"} -> 16
      [] Len(text) >= 2 /\ SubSeq(text, 1, 2) \in {"0o", "0O"} -> 8
      [] Len(text) >= 2 /\ SubSeq(text, 1, 2) \in {"0b", "0B"} -> 2
      [] OTHER -> 10

\* the literal whose digits body spell value in the base: [ok, value], ok
\* FALSE for ValueError.  A decimal literal has no leading zero unless it is
\* all zeros.  (Underscores between digits are not modelled.)
LiteralOf(body, base, value) ==
    IF body = "" \/ value = -1 THEN [ok |-> FALSE, value |-> 0]
    ELSE IF base = 10 /\ Len(body) > 1 /\ CharAt(body, 1) = "0" /\ value # 0
    THEN [ok |-> FALSE, value |-> 0]
    ELSE [ok |-> TRUE, value |-> value]

LiteralInBase(body, base) == LiteralOf(body, base, DigitsValue(body, 1, base, 0))

\* int(text, 0) of an unsigned literal; 0x, 0o and 0b give the base
UnsignedLiteral(text) ==
    IF BaseOf(text) = 10 THEN LiteralInBase(text, 10)
    ELSE LiteralInBase(SubSeq(text, 3, Len(text)), BaseOf(text))

Negated(u) == [ok |-> u.ok, value |-> 0 - u.value]

\* int(text, 0): an optional sign, then the literal
IntLiteral(text) ==
    IF text # "" /\ CharAt(text, 1) = "-"
    THEN Negated(UnsignedLiteral(SubSeq(text, 2, Len(text))))
    ELSE IF text # "" /\ CharAt(text, 1) = "+"
    THEN UnsignedLiteral(SubSeq(text, 2, Len(text)))
    ELSE UnsignedLiteral(text)

FinishedAs(current, literal) ==
    IF literal.ok THEN IntNode(literal.value, current.line, current.col) ELSE current

\* try: current.value = int(current.value, 0); current.type = "int"
\* except ValueError: pass
Finished(current) == FinishedAs(current, IntLiteral(current.word))

\* node.value.append(kid)
AppendKid(node, kid) == [node EXCEPT !.kids = Append(@, kid)]

\* the parser before the first character
ParserStart(line, col) ==
    [stack |-> << >>, current_list |-> ListNode(<< >>, line, col), current |-> NoNode,
     mode |-> "normal", escape |-> FALSE, line |-> line, col |-> col]

\* lines 96-99: the position of the character
Moved(p, char) ==
    [p EXCEPT !.line = IF char = "\n" THEN p.line + 1 ELSE p.line,
              !.col = IF char = "\n" THEN 1 ELSE p.col + 1]

\* a character inside a string
StringChar(p, q, char) ==
    IF p.escape
    THEN [q EXCEPT !.escape = FALSE,
                   !.current = AppendKid(@, IntNode(Ord(char), q.line, q.col))]
    ELSE IF char = "\\" THEN [q EXCEPT !.escape = TRUE]
    ELSE IF char = "\""
    THEN [q EXCEPT !.current_list =
                       AppendKid(@, AppendKid(p.current, IntNode(0, q.line, q.col))),
                   !.mode = "normal",
                   !.current = NoNode]
    ELSE [q EXCEPT !.current = AppendKid(@, IntNode(Ord(char), q.line, q.col))]

\* the word or the number under way ends at a delimiter
Closed(p, q, char) ==
    IF char \in {" ", "\t", "\n", "\r", "(", ")", "\"", "'", ";"} /\ p.current # NoNode
    THEN [q EXCEPT !.current_list = AppendKid(@, Finished(p.current)),
                   !.current = NoNode]
    ELSE q

\* the word under way, or a new one at the position of the character
WordAt(q) == IF q.current = NoNode THEN WordNode("", q.line, q.col) ELSE q.current

\* a character outside strings, characters and comments, q1 being the
\* parser after the word under way was closed
NormalChar(q1, char) ==
    CASE char = "(" ->
           [q1 EXCEPT !.stack = Append(@, q1.current_list),
                      !.current_list = ListNode(<< >>, q1.line, q1.col)]
      [] char = ")" ->
           [q1 EXCEPT !.current_list = AppendKid(q1.stack[Len(q1.stack)], q1.current_list),
                      !.stack = SubSeq(@, 1, Len(@) - 1)]
      [] char = "\"" ->
           [q1 EXCEPT !.mode = "string", !.current = ListNode(<< >>, q1.line, q1.col)]
      [] char = "'" ->
           [q1 EXCEPT !.mode = "char", !.current = IntNode(0, q1.line, q1.col)]
      [] char = ";" -> [q1 EXCEPT !.mode = "comment"]
      [] char \notin {"(", ")", "\"", "'", ";", " ", "\t", "\n", "\r"} ->
           [q1 EXCEPT !.current = [WordAt(q1) EXCEPT !.word = @ \o char]]
      [] OTHER -> q1

\* one pass of the loop of parse, q being the parser at the position of the
\* character
ParseAt(p, q, char) ==
    CASE p.mode = "comment" ->
           IF char = "\n" THEN [q EXCEPT !.mode = "normal"] ELSE q
      [] p.mode = "string" -> StringChar(p, q, char)
      [] p.mode = "char" ->
           [q EXCEPT !.current_list = AppendKid(@, [p.current EXCEPT !.num = Ord(char)]),
                     !.current = NoNode,
                     !.mode = "normal"]
      [] OTHER -> NormalChar(Closed(p, q, char), char)

\* one pass of the loop of parse over the character char
ParseChar(p, char) == ParseAt(p, Moved(p, char), char)

RECURSIVE ParseFrom(_, _, _, _)
RECURSIVE ParseRest(_, _, _, _)
\* the loop of parse over the characters lo..hi of the text, the first half
\* of them before the second
ParseFrom(text, lo, hi, p) ==
    IF lo > hi THEN p
    ELSE IF lo = hi THEN ParseChar(p, CharAt(text, lo))
    ELSE ParseRest(text, (lo + hi) \div 2 + 1, hi, ParseFrom(text, lo, (lo + hi) \div 2, p))

\* the second half of the text, once the first half left the parser q
ParseRest(text, lo, hi, q) == IF q.col > 0 THEN ParseFrom(text, lo, hi, q) ELSE q

\* parse(code, line, col): the list node of the top-level nodes.  (The source
\* wraps it in one more Node, which indexes and iterates as this one does.)
parse(text, line, col) ==
    [ ParseFrom(text \o "\n", 1, Len(text) + 1, ParserStart(line, col)).current_list
          EXCEPT !.line = line, !.col = col ]

(***************************************************************************)
(* The KL compiler: tables, the Compiler object, macros                    *)
(***************************************************************************)
SIZE_DIRECTIVES == (1 :> "byte") @@ (2 :> "word") @@ (4 :> "dword")

TYPE_DIRECTIVES == [t \in DOMAIN TYPE_SIZES |-> SIZE_DIRECTIVES[TYPE_SIZES[t]]]

TYPES == INT_TYPES \o <<"void">>

top_level == <<"fn", "static", "array", "import", "struct">>

BinaryOperators ==
    <<"+", "-", "*", "/", "%", "<", ">", ">=", "<=", "==", "!=", "&", "|", "<<", ">>">>

\* f"${r}"
Reg(r) == "$" \o ToString(r)

\* TYPE_DIRECTIVES[t][0]
Letter(t) == CharAt(TYPE_DIRECTIVES[t], 1)

\* node[0].value where it is a word, and "" where node[0] is not a word
\* (no word is empty)
HeadWord(node) == IF node.kids[1].type = "word" THEN node.kids[1].word ELSE ""

\* str(node) of a word or an integer node
Lit(node) == IF node.type = "int" THEN ToString(node.num) ELSE node.word

\* set([val.type for val in node.value]) == set(["int"])
AllInts(node) ==
    /\ Len(node.kids) > 0
    /\ \A i \in 1..Len(node.kids) : node.kids[i].type = "int"

RECURSIVE Chars(_, _)
\* "".join([chr(val.value) for val in kids[:-1]]), from kid i on
Chars(kids, i) == IF i >= Len(kids) THEN "" ELSE Chr(kids[i].num) \o Chars(kids, i + 1)

\* text.split("\n"): the lines of the text, each between two line feeds
Split(text) ==
    LET feeds == {i \in 1..Len(text) : CharAt(text, i) = "\n"}
        feed(j) == CHOOSE i \in feeds : Cardinality({k \in feeds : k < i}) = j - 1
        first(j) == IF j = 1 THEN 1 ELSE feed(j - 1) + 1
        last(j) == IF j = Cardinality(feeds) + 1 THEN Len(text) ELSE feed(j) - 1
    IN [j \in 1..(Cardinality(feeds) + 1) |-> SubSeq(text, first(j), last(j))]

\* Compiler.__init__; code is kept as the sequence of its lines, err is the
\* message of the exception that ended the compilation ("" for none), ret the
\* value the last call of generate_expression returned; two fields are
\* history: prepended counts the lines put at the start of the code, trace
\* lists the calls of generate_expression in the order they ended
NewCompiler(path, comment, type_checking, definitions_mode, import_mode) ==
    [code |-> << >>,
     funcs |-> EmptyDict,
     structs |-> EmptyDict,
     vars |-> << EmptyDict >>,
     sp_offset |-> 0,
     private |-> FALSE,
     path |-> path,
     source_code |-> << >>,
     line |-> 0,
     comment |-> comment,
     type_checking |-> type_checking,
     definitions_mode |-> definitions_mode,
     import_mode |-> import_mode,
     err |-> "",
     errat |-> "",
     ret |-> "None",
     prepended |-> 0,
     trace |-> << >>]

\* self.code += lines
Emit(c, lines) == [c EXCEPT !.code = @ \o lines]

\* raise CompileError(msg, node)
Raise(c, msg, node) == [c EXCEPT !.err = msg, !.errat = NodeId(node)]

\* an exception of the interpreter (IndexError, KeyError, TypeError, ...),
\* which run does not catch
Crash(c, kind, node) == [c EXCEPT !.err = kind, !.errat = NodeId(node)]

\* return t
Return(c, t) == [c EXCEPT !.ret = t]

Failed(c) == c.err # ""

\* {**a, **b}
DictMerge(a, b) ==
    LET RECURSIVE Fold(_, _)
        Fold(d, i) == IF i > Len(b) THEN d ELSE Fold(DictPut(d, b[i].k, b[i].v), i + 1)
    IN Fold(a, 1)

\* the function f of generate_expression, lines 247-273: the macros zero and
\* str applied to one node; the answer is the node and the exception, if any
Macro(c, node) ==
    LET ok(n) == [node |-> n, err |-> "", errat |-> ""]
        bad(msg) == [node |-> node, err |-> msg, errat |-> NodeId(node)]
    IN IF ~(node.type = "list" /\ Len(node.kids) > 0) THEN ok(node)
       ELSE IF HeadWord(node) = "zero"
       THEN IF Len(node.kids) # 2 THEN bad("wrong number of arguments")
            ELSE LET a == node.kids[2]
                     zeros(size) ==
                         ok([node EXCEPT !.kids =
                                [i \in 1..(IF size > 0 THEN size ELSE 0) |->
                                     IntNode(0, node.line, node.col)]])
                 IN IF a.type = "int" THEN zeros(a.num)
                    ELSE IF a.type = "list" THEN bad("TypeError")
                    ELSE IF DictHas(c.structs, a.word) THEN zeros(DictGet(c.structs, a.word).size)
                    ELSE IF InList(a.word, TYPES)
                    THEN IF a.word \in DOMAIN TYPE_SIZES THEN zeros(TYPE_SIZES[a.word])
                         ELSE bad("KeyError")
                    ELSE bad("invalid argument")
       ELSE IF HeadWord(node) = "str"
       THEN IF Len(node.kids) # 2 THEN bad("wrong number of arguments")
            ELSE IF node.kids[2].type # "list" \/ ~AllInts(node.kids[2])
            THEN bad("argument must be string or list of bytes")
            ELSE LET string == node.kids[2]
                     new == parse("addr (data uint8 ())", node.line, node.col)
                 IN ok([node EXCEPT !.kids =
                           [new.kids EXCEPT ![2] =
                               [@ EXCEPT !.kids = [@ EXCEPT ![3] = string]]]])
       ELSE ok(node)

RECURSIVE Transform(_, _)
RECURSIVE TransformKids(_, _, _)
RECURSIVE TransformNext(_, _, _, _)
\* the nodes of n from the i-th on, transformed in turn
TransformKids(c, n, i) ==
    IF i > Len(n.kids) THEN [node |-> n, err |-> "", errat |-> ""]
    ELSE TransformNext(c, n, i, Transform(c, n.kids[i]))

TransformNext(c, n, i, k) ==
    IF k.err # "" THEN [k EXCEPT !.node = n]
    ELSE TransformKids(c, [n EXCEPT !.kids[i] = k.node], i + 1)

\* the nodes of the value the macros left, m
Transformed(c, m) ==
    IF m.err # "" THEN m
    ELSE IF m.node.type # "list" THEN m
    ELSE TransformKids(c, m.node, 1)

\* Node.transform(f): f on the node, then on the nodes of its new value
Transform(c, node) == Transformed(c, Macro(c, node))

(***************************************************************************)
(* The KL compiler: generate_expression                                    *)
(***************************************************************************)
\* self.merge_types(l, r, node), the answer left in ret
Merge(c, l, r, node) ==
    LET m == merge_types(c.type_checking, l, r)
    IN IF m.kind = "raise" THEN Raise(c, m.value, node) ELSE Return(c, m.value)

\* the lines of one binary operator, lines 633-650
OperatorLines(op, r) ==
    CASE op = "+" -> << "add " \o Reg(r + 1) \o " " \o Reg(r) >>
      [] op = "-" -> << "sub " \o Reg(r + 1) \o " " \o Reg(r) >>
      [] op = "*" -> << "mul " \o Reg(r + 1) \o " " \o Reg(r), "mov $13 " \o Reg(r) >>
      [] op = "/" -> << "div " \o Reg(r + 1) \o " " \o Reg(r), "mov $14 " \o Reg(r) >>
      [] op = "%" -> << "div " \o Reg(r + 1) \o " " \o Reg(r), "mov $13 " \o Reg(r) >>
      [] op = "<" -> << "clt " \o Reg(r) \o " " \o Reg(r + 1) >>
      [] op = ">" -> << "cgt " \o Reg(r) \o " " \o Reg(r + 1) >>
      [] op = "<=" -> << "cltq " \o Reg(r) \o " " \o Reg(r + 1) >>
      [] op = ">=" -> << "cgtq " \o Reg(r) \o " " \o Reg(r + 1) >>
      [] op = "==" -> << "ceq " \o Reg(r) \o " " \o Reg(r + 1) >>
      [] op = "!=" -> << "cnq " \o Reg(r) \o " " \o Reg(r + 1) >>
      [] op = "&" -> << "and " \o Reg(r + 1) \o " " \o Reg(r) >>
      [] op = "|" -> << "or " \o Reg(r + 1) \o " " \o Reg(r) >>
      [] op = "<<" -> << "shl " \o Reg(r + 1) \o " " \o Reg(r) >>
      [] op = ">>" -> << "shr " \o Reg(r + 1) \o " " \o Reg(r) >>

\* the index of the outermost scope that binds name, 0 for none
ScopeOfOutermost(scopes, name) ==
    IF \E i \in 1..Len(scopes) : DictHas(scopes[i], name)
    THEN CHOOSE i \in 1..Len(scopes) :
             /\ DictHas(scopes[i], name)
             /\ \A j \in 1..(i - 1) : ~DictHas(scopes[j], name)
    ELSE 0

\* the index of the innermost scope that binds name, 0 for none: the loop
\* for scope in reversed(self.vars)
ScopeOf(scopes, name) ==
    IF \E i \in 1..Len(scopes) : DictHas(scopes[i], name)
    THEN CHOOSE i \in 1..Len(scopes) :
             /\ DictHas(scopes[i], name)
             /\ \A j \in (i + 1)..Len(scopes) : ~DictHas(scopes[j], name)
    ELSE 0

\* f"add {offset} ${r}" or f"sub {-offset} ${r}"
OffsetLine(offset, r) ==
    IF offset < 0 THEN "sub " \o ToString(0 - offset) \o " " \o Reg(r)
    ELSE "add " \o ToString(offset) \o " " \o Reg(r)

\* the branch node.type == "word", lines 303-334
GenWord(c, node, r) ==
    LET addr == CharAt(node.word, 1) = "&"
        name == IF addr THEN SubSeq(node.word, 2, Len(node.word)) ELSE node.word
        s == ScopeOf(c.vars, name)
        var == DictGet(c.vars[s], name)
    IN IF s = 0 THEN Raise(c, "undefined variable", node)
       ELSE IF var.global
       THEN IF ~addr
            THEN IF var.type \notin DOMAIN TYPE_SIZES
                 THEN Crash(c, "KeyError", node)
                 ELSE Return(Emit(c, << "mov #" \o name \o " " \o Reg(r + 1),
                                        "ld" \o Letter(var.type) \o " " \o Reg(r + 1)
                                             \o " " \o Reg(r) >>), var.type)
            ELSE Return(Emit(c, << "mov #" \o name \o " " \o Reg(r) >>), var.type)
       ELSE IF ~addr
            THEN LET c1 == Emit(c, << "mov $12 " \o Reg(r + 1), OffsetLine(var.offset, r + 1) >>)
                 IN IF var.type \notin DOMAIN TYPE_SIZES
                    THEN Crash(c1, "KeyError", node)
                    ELSE Return(Emit(c1, << "ld" \o Letter(var.type) \o " " \o Reg(r + 1)
                                                 \o " " \o Reg(r) >>), var.type)
            ELSE Return(Emit(c, << "mov $12 " \o Reg(r), OffsetLine(var.offset, r) >>),
                        var.type)

\* node.value in TYPES
IsType(node) == node.type = "word" /\ InList(node.word, TYPES)

\* the parameter checks of fn in definitions mode, lines 387-401, from
\* parameter i on: the message of the exception, "" for none
RECURSIVE ParamError(_, _, _)
ParamError(c, params, i) ==
    IF i > Len(params) THEN ""
    ELSE LET arg == params[i]
         IN IF arg.type # "list" THEN "invalid parameter definition"
            ELSE IF Len(arg.kids) # 2 THEN "wrong number of arguments"
            ELSE IF ~IsType(arg.kids[1]) THEN "first argument must be type"
            ELSE IF arg.kids[2].type # "word" THEN "invalid parameter name"
            ELSE IF DictHas(c.vars[Len(c.vars)], arg.kids[2].word)
            THEN "cannot define parameter twice"
            ELSE ParamError(c, params, i + 1)

\* a frame of the parameters that starts at offset 4, as if a call pushed
\* no return address
RECURSIVE ParamFrameFromFour(_, _, _)
ParamFrameFromFour(params, i, frame) ==
    IF i > Len(params) THEN frame
    ELSE ParamFrameFromFour(params, i + 1,
             DictPut(frame, params[i].kids[2].word,
                     [global |-> FALSE, offset |-> 4 + 4 * (i - 1),
                      type |-> params[i].kids[1].word, length |-> 1]))

\* the frame of the parameters, lines 416-425
RECURSIVE ParamFrame(_, _, _)
ParamFrame(params, i, frame) ==
    IF i > Len(params) THEN frame
    ELSE ParamFrame(params, i + 1,
             DictPut(frame, params[i].kids[2].word,
                     [global |-> FALSE, offset |-> 8 + 4 * (i - 1),
                      type |-> params[i].kids[1].word, length |-> 1]))

\* the loop over the fields of a struct, lines 445-459, from field i on
RECURSIVE StructFields(_, _, _, _)
StructFields(c, fields, i, acc) ==
    IF i > Len(fields) THEN acc
    ELSE LET field == fields[i]
             bad(msg) == [acc EXCEPT !.err = msg]
         IN IF field.type = "int" THEN bad("TypeError")
            ELSE IF field.type = "word"
            THEN IF Len(field.word) # 2 THEN bad("invalid struct field definition")
                 ELSE bad("AttributeError")
            ELSE IF Len(field.kids) # 2 THEN bad("invalid struct field definition")
            ELSE IF ~IsType(field.kids[1]) THEN bad("first argument must be type")
            ELSE IF field.kids[2].type # "word" THEN bad("invalid struct field name")
            ELSE IF DictHas(c.vars[Len(c.vars)], field.kids[2].word)
            THEN bad("cannot define struct field twice")
            ELSE IF field.kids[1].word \notin DOMAIN TYPE_SIZES THEN bad("KeyError")
            ELSE StructFields(c, fields, i + 1,
                     [acc EXCEPT !.fields = Append(@, [name |-> field.kids[2].word,
                                                        type |-> field.kids[1].word]),
                                 !.size = @ + TYPE_SIZES[field.kids[1].word]])

\* the position of the first "." of a word, 0 for none
DotAt(word) ==
    IF \E i \in 1..Len(word) : CharAt(word, i) = "."
    THEN CHOOSE i \in 1..Len(word) :
             CharAt(word, i) = "." /\ \A j \in 1..(i - 1) : CharAt(word, j) # "."
    ELSE 0

\* word.count(".")
DotCount(word) == Cardinality({i \in 1..Len(word) : CharAt(word, i) = "."})

\* the search of a field in struct["fields"], lines 719-729
FieldOf(struct, name) ==
    LET found == \E i \in 1..Len(struct.fields) : struct.fields[i].name = name
        at == CHOOSE i \in 1..Len(struct.fields) :
                  /\ struct.fields[i].name = name
                  /\ \A j \in 1..(i - 1) : struct.fields[j].name # name
        RECURSIVE Sum(_)
        Sum(i) == IF i = 0 THEN 0 ELSE Sum(i - 1) + TYPE_SIZES[struct.fields[i].type]
    IN IF found THEN [found |-> TRUE, type |-> struct.fields[at].type, offset |-> Sum(at - 1)]
       ELSE [found |-> FALSE, type |-> "None", offset |-> 0]

\* the lines of (data type (list of integers)), line 882
DataLines(directive, kids) == [i \in 1..Len(kids) |-> "." \o directive \o " " \o ToString(kids[i].num)]

RECURSIVE Gen(_, _, _, _, _)
RECURSIVE GenSeq(_, _, _, _, _)
RECURSIVE GenCond(_, _, _, _)
RECURSIVE GenSwitch(_, _, _, _)
RECURSIVE GenArgs(_, _, _, _, _)
RECURSIVE GenAsm(_, _, _)
RECURSIVE GenArray(_, _, _)

\* for expr in nodes[i:]: self.generate_expression(expr, statement=statement, r=r)
GenSeq(c, nodes, i, statement, r) ==
    IF i > Len(nodes) THEN c
    ELSE LET c1 == Gen(c, nodes[i], FALSE, statement, r)
         IN IF Failed(c1) THEN c1 ELSE GenSeq(c1, nodes, i + 1, statement, r)

\* for expr in block: the body of a branch of cond or switch, which the
\* source iterates whatever the type of the node
GenBlock(c, block, r) ==
    IF block.type = "list" THEN GenSeq(c, block.kids, 1, TRUE, r)
    ELSE IF block.type = "word" THEN Crash(c, "AttributeError", block)
    ELSE Crash(c, "TypeError", block)

\* the loop of cond, lines 498-506, from branch i (counted from 0) on
GenCond(c, node, i, r) ==
    IF 2 * i + 2 > Len(node.kids) THEN c
    ELSE LET name == "#__cond_" \o NodeId(node)
             c1 == Gen(c, node.kids[2 * i + 2], FALSE, FALSE, r)
             c2 == Emit(c1, << "bf " \o name \o "_" \o ToString(i) >>)
             c3 == GenBlock(c2, node.kids[2 * i + 3], r)
             c4 == Emit(c3, << "b " \o name \o "_end", name \o "_" \o ToString(i) \o ":" >>)
         IN IF Failed(c1) THEN c1
            ELSE IF Failed(c3) THEN c3
            ELSE GenCond(c4, node, i + 1, r)

\* the loop of switch, lines 518-527, from branch i (counted from 0) on
GenSwitch(c, node, i, r) ==
    IF 2 * i + 3 > Len(node.kids) THEN c
    ELSE LET name == "#__switch_" \o NodeId(node)
             c0 == Emit(c, << "push " \o Reg(r + 1) >>)
             c1 == Gen(c0, node.kids[2 * i + 3], FALSE, FALSE, r)
             c2 == Emit(c1, << "pop " \o Reg(r + 1),
                               "ceq " \o Reg(r) \o " " \o Reg(r + 1),
                               "bf " \o name \o "_" \o ToString(i) >>)
             c3 == GenBlock(c2, node.kids[2 * i + 4], r)
             c4 == Emit(c3, << "b " \o name \o "_end", name \o "_" \o ToString(i) \o ":" >>)
         IN IF Failed(c1) THEN c1
            ELSE IF Failed(c3) THEN c3
            ELSE GenSwitch(c4, node, i + 1, r)

\* the loop over zip(reversed(node[1:]), reversed(func["args"])), lines
\* 896-899, at argument i, going down
GenArgs(c, node, params, i, r) ==
    IF i = 0 THEN c
    ELSE LET arg == node.kids[i + 1]
             c1 == Gen(c, arg, FALSE, FALSE, r)
             c2 == Merge(c1, c1.ret, params[i], arg)
             c3 == Emit(c2, << "push " \o Reg(r) >>)
         IN IF Failed(c1) THEN c1
            ELSE IF Failed(c2) THEN c2
            ELSE GenArgs(c3, node, params, i - 1, r)

\* the loop of asm, lines 866-870, from argument i on
GenAsm(c, node, i) ==
    IF i > Len(node.kids) THEN c
    ELSE LET arg == node.kids[i]
         IN IF arg.type # "list" \/ ~AllInts(arg)
            THEN Raise(c, "inline assembly must be string or list of bytes", arg)
            ELSE GenAsm(Emit(c, << Chars(arg.kids, 1) >>), node, i + 1)

\* the loop over the elements of a static array, lines 572-576
GenArray(c, node, i) ==
    IF i > Len(node.kids[4].kids) THEN c
    ELSE LET expr == node.kids[4].kids[i]
         IN IF expr.type # "int"
            THEN Raise(c, "array element must be integer literal", node)
            ELSE IF node.kids[2].word \notin DOMAIN TYPE_SIZES
            THEN Crash(c, "KeyError", node)
            ELSE GenArray(Emit(c, << "." \o TYPE_DIRECTIVES[node.kids[2].word] \o " "
                                         \o ToString(expr.num) >>), node, i + 1)

\* the symbols of an imported file declared as exports of the importing unit
ImportLinesAsExports(symbols) == [i \in 1..Len(symbols) |-> ".export #" \o symbols[i].k]

\* lines 367-368: one .import line for each function and global of the file
ImportLines(symbols) == [i \in 1..Len(symbols) |-> ".import #" \o symbols[i].k]

\* the branch import, lines 343-368; CompileFile(path) is the sub-compiler
\* after compiler.compile(parse(code)), or the exception of open
GenImport(c, node, sub) ==
    IF Len(node.kids) # 2 THEN Raise(c, "wrong number of arguments", node)
    ELSE IF node.kids[2].type # "list"
    THEN Raise(c, "file name must be string or list of bytes", node)
    ELSE IF c.definitions_mode THEN c
    ELSE IF Failed(sub) THEN [c EXCEPT !.err = sub.err, !.errat = sub.errat]
    ELSE Emit([c EXCEPT !.funcs = DictMerge(@, sub.funcs),
                        !.structs = DictMerge(@, sub.structs),
                        !.vars[1] = DictMerge(@, sub.vars[1])],
              ImportLines(DictMerge(sub.funcs, sub.vars[1])))

\* the lines that open a function, line 427
Prologue(name) == << ".export #" \o name, "#" \o name \o ":", "push $12", "mov $15 $12" >>

\* the lines that leave a function, without restoring the stack pointer
EpilogueKeepsStack == << "pop $12", "ret" >>

\* the lines that leave a function, lines 430 and 622
Epilogue == << "mov $12 $15", "pop $12", "ret" >>

\* the branch fn, lines 370-432
GenFn(c, node, r) ==
    IF Len(node.kids) < 4 THEN Raise(c, "wrong number of arguments", node)
    ELSE IF ~IsType(node.kids[2]) THEN Raise(c, "first argument must be type", node)
    ELSE IF node.kids[3].type # "word" THEN Raise(c, "invalid function name", node)
    ELSE IF node.kids[4].type # "list"
    THEN Raise(c, "third argument must be parameter list", node)
    ELSE IF c.definitions_mode
    THEN IF DictHas(c.funcs, node.kids[3].word)
         THEN Raise(c, "cannot declare function twice", node)
         ELSE IF ParamError(c, node.kids[4].kids, 1) # ""
         THEN Raise(c, ParamError(c, node.kids[4].kids, 1), node)
         ELSE [c EXCEPT !.funcs =
                            IF c.private THEN @
                            ELSE DictPut(@, node.kids[3].word,
                                     [type |-> node.kids[2].word,
                                      args |-> [i \in 1..Len(node.kids[4].kids) |->
                                                    node.kids[4].kids[i].kids[1].word]]),
                        !.private = FALSE]
    ELSE LET name == node.kids[3].word
             c1 == [c EXCEPT !.sp_offset = 0,
                             !.vars = Append(@, ParamFrame(node.kids[4].kids, 1, EmptyDict))]
             c2 == Emit(c1, Prologue(name))
             c3 == GenSeq(c2, node.kids, 5, TRUE, r)
             c4 == Emit(c3, Epilogue)
         IN IF Failed(c3) THEN c3
            ELSE [c4 EXCEPT !.vars = SubSeq(@, 1, Len(@) - 1)]

\* the branch struct, lines 434-468
GenStruct(c, node) ==
    IF Len(node.kids) < 3 THEN Raise(c, "wrong number of arguments", node)
    ELSE IF node.kids[2].type # "word"
    THEN Raise(c, "first argument must be struct name", node)
    ELSE IF ~c.definitions_mode THEN c
    ELSE LET f == StructFields(c, SubSeq(node.kids, 3, Len(node.kids)), 1,
                               [fields |-> << >>, size |-> 0, err |-> ""])
         IN IF f.err # "" THEN Raise(c, f.err, node)
            ELSE [c EXCEPT !.structs =
                               IF c.private THEN @
                               ELSE DictPut(@, node.kids[2].word,
                                            [fields |-> f.fields, size |-> f.size]),
                           !.private = FALSE]

\* an unwinding that leaves sp_offset where the body of the loop left it
OffsetKept(offset, locals) == offset

\* line 486: self.sp_offset += 4, once for each variable of the frame
UnwoundOffset(offset, locals) == offset + 4 * locals

\* a loop that leaves its locals on the stack
UnwindNothing(locals) == << >>

\* lines 484-486: one pop for each local of the frame of the loop
Unwind(locals) == [i \in 1..locals |-> "pop $0"]

\* the branch while, lines 470-489
GenWhile(c, node, statement, r) ==
    IF Len(node.kids) = 1 THEN Raise(c, "wrong number of arguments", node)
    ELSE IF ~statement THEN Raise(c, "while loop cannot be used in expression", node)
    ELSE LET name == "#__while_" \o NodeId(node)
             c1 == Emit([c EXCEPT !.vars = Append(@, EmptyDict)], << name \o ":" >>)
             c2 == Gen(c1, node.kids[2], FALSE, FALSE, r)
             c3 == Emit(c2, << "bf " \o name \o "_end" >>)
             c4 == GenSeq(c3, node.kids, 3, TRUE, r)
             locals == Len(c4.vars[Len(c4.vars)])
             c5 == Emit([c4 EXCEPT !.sp_offset = UnwoundOffset(@, locals)],
                        Unwind(locals) \o << "b " \o name, name \o "_end:" >>)
         IN IF Failed(c2) THEN c2
            ELSE IF Failed(c4) THEN c4
            ELSE [c5 EXCEPT !.vars = SubSeq(@, 1, Len(@) - 1)]

\* line 551: len(node[2]) if node[2].type == "list" else 1, node[2] being
\* the name of the static
StaticLength(node) ==
    IF node.kids[3].type = "list" THEN Len(node.kids[3].kids) ELSE 1

\* the branch static, lines 530-576
GenStatic(c, node) ==
    IF Len(node.kids) \notin {4, 3} THEN Raise(c, "wrong number of arguments", node)
    ELSE IF ~IsType(node.kids[2]) THEN Raise(c, "first argument must be type", node)
    ELSE IF node.kids[3].type # "word" THEN Raise(c, "invalid variable name", node)
    ELSE IF Len(node.kids) = 4 /\ node.kids[4].type \notin {"int", "list"}
    THEN Raise(c, "static variable must be integer or array of integers", node)
    ELSE IF c.definitions_mode
    THEN IF DictHas(c.vars[1], node.kids[3].word)
         THEN Raise(c, "cannot declare variable twice", node)
         ELSE [c EXCEPT !.vars[1] =
                            IF c.private THEN @
                            ELSE DictPut(@, node.kids[3].word,
                                     [global |-> TRUE, offset |-> 0,
                                      type |-> node.kids[2].word,
                                      length |-> StaticLength(node)]),
                        !.private = FALSE]
    ELSE LET name == node.kids[3].word
             type == node.kids[2].word
             head == << ".export #" \o name, "#" \o name \o ":" >>
         IN IF Len(node.kids) = 3
            THEN IF type \notin DOMAIN TYPE_SIZES THEN Crash(c, "KeyError", node)
                 ELSE Emit(c, head \o << "." \o TYPE_DIRECTIVES[type] \o " 0" >>)
            ELSE IF node.kids[4].type = "int"
            THEN IF type \notin DOMAIN TYPE_SIZES THEN Crash(c, "KeyError", node)
                 ELSE Emit(c, head \o << "." \o TYPE_DIRECTIVES[type] \o " "
                                             \o ToString(node.kids[4].num) >>)
            ELSE GenArray(Emit(c, head), node, 1)

\* the branch local, lines 578-609
GenLocal(c, node, statement, r) ==
    IF Len(node.kids) \notin {4, 3} THEN Raise(c, "wrong number of arguments", node)
    ELSE IF ~IsType(node.kids[2]) THEN Raise(c, "first argument must be type", node)
    ELSE IF node.kids[3].type # "word" THEN Raise(c, "invalid variable name", node)
    ELSE IF ~statement
    THEN Raise(c, "local variable cannot be declared in expression", node)
    ELSE IF DictHas(c.vars[Len(c.vars)], node.kids[3].word)
    THEN Raise(c, "cannot declare variable twice", node)
    ELSE LET c1 == IF Len(node.kids) = 3 THEN Emit(c, << "mov $0 " \o Reg(r) >>)
                   ELSE LET g == Gen(c, node.kids[4], FALSE, FALSE, r)
                        IN IF Failed(g) THEN g
                           ELSE Merge(g, node.kids[2].word, g.ret, node)
             c2 == Emit(c1, << "push " \o Reg(r) >>)
         IN IF Failed(c1) THEN c1
            ELSE Return([c2 EXCEPT !.sp_offset = @ - 4,
                                   !.vars[Len(c2.vars)] =
                                       DictPut(@, node.kids[3].word,
                                           [global |-> FALSE, offset |-> c2.sp_offset - 4,
                                            type |-> node.kids[2].word, length |-> 1])],
                        "None")

\* lines 617-622: the value, if any, then the lines that leave the function
ReturnLines(c, node, r) ==
    LET c1 == IF Len(node.kids) = 2
              THEN LET g == Gen(c, node.kids[2], FALSE, FALSE, r)
                   IN IF Failed(g) \/ r = 1 THEN g
                      ELSE Emit(g, << "mov " \o Reg(r) \o " $1" >>)
              ELSE c
    IN IF Failed(c1) THEN c1
       ELSE Return(Emit(c1, Epilogue), "None")

\* a return lowered whatever the place it stands in
GenReturnAnywhere(c, node, statement, r) == ReturnLines(c, node, r)

\* the branch return, lines 611-622
GenReturn(c, node, statement, r) ==
    IF Len(node.kids) > 2 THEN Raise(c, "wrong number of arguments", node)
    ELSE IF ~statement THEN Raise(c, "return cannot be used in expression", node)
    ELSE ReturnLines(c, node, r)

\* the branch of the binary operators, lines 624-652
GenOperator(c, node, r) ==
    IF Len(node.kids) # 3 THEN Raise(c, "wrong number of arguments", node)
    ELSE LET c1 == Gen(c, node.kids[3], FALSE, FALSE, r)
             c2 == Emit(c1, << "push " \o Reg(r) >>)
             c3 == Gen(c2, node.kids[2], FALSE, FALSE, r)
             c4 == Emit(c3, << "pop " \o Reg(r + 1) >> \o OperatorLines(HeadWord(node), r))
         IN IF Failed(c1) THEN c1
            ELSE IF Failed(c3) THEN c3
            ELSE Merge(c4, c3.ret, c1.ret, node)

\* the branch set-var, lines 654-668
GenSetVar(c, node, r) ==
    IF Len(node.kids) # 3 THEN Raise(c, "wrong number of arguments", node)
    ELSE IF node.kids[2].type # "word"
    THEN Raise(c, "first argument must be variable name", node)
    ELSE LET c1 == Gen(c, node.kids[2], FALSE, FALSE, r)
             c2 == Emit(c1, << "push " \o Reg(r + 1) >>)
             c3 == Gen(c2, node.kids[3], FALSE, FALSE, r)
             c4 == Emit(c3, << "pop " \o Reg(r + 1),
                               "st" \o Letter(c1.ret) \o " " \o Reg(r) \o " " \o Reg(r + 1) >>)
             c5 == Merge(c4, c1.ret, c3.ret, node)
         IN IF Failed(c1) THEN c1
            ELSE IF Failed(c3) THEN c3
            ELSE IF c1.ret \notin DOMAIN TYPE_SIZES THEN Crash(c3, "KeyError", node)
            ELSE IF Failed(c5) THEN c5
            ELSE Return(c5, c1.ret)

\* the letter of set-8, get-8, ...: the tables of lines 674-678 and 691-695
SizeLetter(word) ==
    LET bits == SubSeq(word, 5, Len(word))
    IN IF bits = "8" THEN "b" ELSE IF bits = "16" THEN "w" ELSE "d"

\* the branch set-8, set-16, set-32, lines 670-685
GenSetN(c, node, r) ==
    IF Len(node.kids) # 3 THEN Raise(c, "wrong number of arguments", node)
    ELSE LET c1 == Gen(c, node.kids[2], FALSE, FALSE, r)
             c2 == Emit(c1, << "push " \o Reg(r) >>)
             c3 == Gen(c2, node.kids[3], FALSE, FALSE, r)
             c4 == Emit(c3, << "pop " \o Reg(r + 1),
                               "st" \o SizeLetter(HeadWord(node)) \o " " \o Reg(r)
                                    \o " " \o Reg(r + 1) >>)
         IN IF Failed(c1) THEN c1
            ELSE IF Failed(c3) THEN c3
            ELSE Return(c4, c3.ret)

\* the branch get-8, get-16, get-32, lines 687-704
GenGetN(c, node, r) ==
    IF Len(node.kids) # 2 THEN Raise(c, "wrong number of arguments", node)
    ELSE LET size == SizeLetter(HeadWord(node))
             c1 == Gen(c, node.kids[2], FALSE, FALSE, r)
         IN IF Failed(c1) THEN c1
            ELSE Return(Emit(c1, << "ld" \o size \o " " \o Reg(r) \o " " \o Reg(r) >>),
                        IF size = "b" THEN "uint8" ELSE IF size = "w" THEN "uint16"
                        ELSE "uint32")

\* the branch get and set of a struct field, lines 706-750
GenField(c, node, r) ==
    LET head == HeadWord(node)
        path == node.kids[2].word
        struct_name == SubSeq(path, 1, DotAt(path) - 1)
        struct_field == SubSeq(path, DotAt(path) + 1, Len(path))
        field == FieldOf(DictGet(c.structs, struct_name), struct_field)
        add == IF field.offset # 0
               THEN << "add " \o ToString(field.offset) \o " " \o Reg(r + 1) >>
               ELSE << >>
    IN IF (head = "get" /\ Len(node.kids) # 3) \/ (head = "set" /\ Len(node.kids) # 4)
       THEN Raise(c, "wrong number of arguments", node)
       ELSE IF node.kids[2].type # "word" \/ DotCount(path) # 1
       THEN Raise(c, "first argument must be struct field", node)
       ELSE IF ~DictHas(c.structs, struct_name) THEN Raise(c, "undefined struct", node)
       ELSE IF ~field.found THEN Raise(c, "undefined struct field", node)
       ELSE IF head = "get"
       THEN LET c1 == Gen(c, node.kids[3], FALSE, FALSE, r)
            IN IF Failed(c1) THEN c1
               ELSE Return(Emit(c1, << "mov " \o Reg(r) \o " " \o Reg(r + 1) >> \o add
                                       \o << "ld" \o Letter(field.type) \o " " \o Reg(r + 1)
                                             \o " " \o Reg(r) >>),
                           field.type)
       ELSE LET c1 == Gen(c, node.kids[3], FALSE, FALSE, r)
                c2 == Emit(c1, << "push " \o Reg(r) >>)
                c3 == Gen(c2, node.kids[4], FALSE, FALSE, r)
                c4 == Merge(c3, field.type, c3.ret, node)
            IN IF Failed(c1) THEN c1
               ELSE IF Failed(c3) THEN c3
               ELSE IF Failed(c4) THEN c4
               ELSE Return(Emit(c4, << "pop " \o Reg(r + 1) >> \o add
                                       \o << "st" \o Letter(field.type) \o " " \o Reg(r)
                                             \o " " \o Reg(r + 1) >>),
                           "None")

\* the branch size, lines 752-764
GenSize(c, node, r) ==
    IF Len(node.kids) # 2 THEN Raise(c, "wrong number of arguments", node)
    ELSE LET a == node.kids[2]
             mov(size) == Return(Emit(c, << "mov " \o ToString(size) \o " " \o Reg(r) >>),
                                 "uint32")
         IN IF a.type = "list" THEN Crash(c, "TypeError", node)
            ELSE IF a.type = "int" THEN Raise(c, "invalid argument", node)
            ELSE IF DictHas(c.structs, a.word) THEN mov(DictGet(c.structs, a.word).size)
            ELSE IF InList(a.word, TYPES)
            THEN IF a.word \in DOMAIN TYPE_SIZES THEN mov(TYPE_SIZES[a.word])
                 ELSE Crash(c, "KeyError", node)
            ELSE Raise(c, "invalid argument", node)

\* the branch cast, lines 766-775
GenCast(c, node, r) ==
    IF Len(node.kids) # 3 THEN Raise(c, "wrong number of arguments", node)
    ELSE IF ~IsType(node.kids[2]) THEN Raise(c, "first argument must be type", node)
    ELSE LET c1 == Gen(c, node.kids[3], FALSE, FALSE, r)
         IN IF Failed(c1) THEN c1 ELSE Return(c1, node.kids[2].word)

\* the branch addr, lines 777-784
GenAddr(c, node, r) ==
    IF Len(node.kids) # 2 THEN Raise(c, "wrong number of arguments", node)
    ELSE LET c1 == Gen(c, node.kids[2], FALSE, FALSE, r)
         IN IF Failed(c1) THEN c1
            ELSE Return(Emit(c1, << "mov " \o Reg(r + 1) \o " " \o Reg(r) >>), "uint32")

\* the branch bool, lines 786-794
GenBool(c, node, r) ==
    IF Len(node.kids) > 2 THEN Raise(c, "wrong number of arguments", node)
    ELSE LET name == "#__bool_" \o NodeId(node) \o "_1"
             c1 == IF Len(node.kids) = 2 THEN Gen(c, node.kids[2], FALSE, FALSE, r) ELSE c
         IN IF Failed(c1) THEN c1
            ELSE Return(Emit(c1, << "mov $0 " \o Reg(r), "bf " \o name,
                                    "mov 1 " \o Reg(r), name \o ":" >>), "uint8")

\* the branch true and false, lines 796-800
GenTruth(c, node) ==
    IF Len(node.kids) # 1 THEN Raise(c, "wrong number of arguments", node)
    ELSE Return(Emit(c, << (IF HeadWord(node) = "true" THEN "ceq" ELSE "cnq") \o " $0 $0" >>),
                "None")

\* the scaling of an index, lines 813-816 and 835-838
IndexLines(size, r) ==
    IF size # 1
    THEN << "mul " \o ToString(size) \o " " \o Reg(r), "add $13 " \o Reg(r + 1) >>
    ELSE << "add " \o Reg(r) \o " " \o Reg(r + 1) >>

\* the branch elem-var, lines 802-819
GenElemVar(c, node, r) ==
    IF Len(node.kids) # 3 THEN Raise(c, "wrong number of arguments", node)
    ELSE IF node.kids[2].type # "word"
    THEN Raise(c, "first argument must be variable name", node)
    ELSE LET c1 == Gen(c, node.kids[2], FALSE, FALSE, r)
             c2 == Emit(c1, << "push " \o Reg(r + 1) >>)
             c3 == Gen(c2, node.kids[3], FALSE, FALSE, r)
             c4 == Emit(c3, << "pop " \o Reg(r + 1) >>)
         IN IF Failed(c1) THEN c1
            ELSE IF Failed(c3) THEN c3
            ELSE IF c1.ret \notin DOMAIN TYPE_SIZES THEN Crash(c4, "KeyError", node)
            ELSE Return(Emit(c4, IndexLines(TYPE_SIZES[c1.ret], r)
                                     \o << "ld" \o Letter(c1.ret) \o " " \o Reg(r + 1)
                                           \o " " \o Reg(r) >>),
                        c1.ret)

\* the branch elem-8, elem-16, elem-32, lines 821-845
GenElemN(c, node, r) ==
    IF Len(node.kids) # 3 THEN Raise(c, "wrong number of arguments", node)
    ELSE LET bits == SubSeq(HeadWord(node), 6, Len(HeadWord(node)))
             size == IF bits = "8" THEN 1 ELSE IF bits = "16" THEN 2 ELSE 4
             c1 == Gen(c, node.kids[2], FALSE, FALSE, r)
             c2 == Emit(c1, << "push " \o Reg(r) >>)
             c3 == Gen(c2, node.kids[3], FALSE, FALSE, r)
             c4 == Emit(c3, << "pop " \o Reg(r + 1) >> \o IndexLines(size, r)
                               \o << "ld" \o CharAt(SIZE_DIRECTIVES[size], 1) \o " "
                                     \o Reg(r + 1) \o " " \o Reg(r) >>)
         IN IF Failed(c1) THEN c1
            ELSE IF Failed(c3) THEN c3
            ELSE Return(c4, IF size = 1 THEN "uint8" ELSE IF size = 2 THEN "uint16"
                            ELSE "uint32")

\* the branch len-var, lines 847-859
GenLenVar(c, node, r) ==
    IF Len(node.kids) # 2 THEN Raise(c, "wrong number of arguments", node)
    ELSE IF node.kids[2].type # "word"
    THEN Raise(c, "first argument must be variable name", node)
    ELSE IF ~DictHas(c.vars[1], node.kids[2].word)
    THEN Raise(c, "undefined static variable", node)
    ELSE Return(Emit(c, << "mov " \o ToString(DictGet(c.vars[1], node.kids[2].word).length)
                               \o " " \o Reg(r) >>), "uint32")

\* the branch data, lines 872-888: the label and the directives go to the
\* start of the code
GenData(c, node, r) ==
    IF Len(node.kids) # 3 THEN Raise(c, "wrong number of arguments", node)
    ELSE IF ~IsType(node.kids[2]) THEN Raise(c, "first argument must be type", node)
    ELSE LET type == node.kids[2].word
             value == node.kids[3]
             name == "#__data_" \o NodeId(node)
             load(lines) ==
                 Return(Emit([c EXCEPT !.code = << name \o ":" >> \o lines \o @,
                                       !.prepended = @ + 1 + Len(lines)],
                             << "mov " \o name \o " " \o Reg(r + 1),
                                "ld" \o Letter(type) \o " " \o Reg(r + 1) \o " " \o Reg(r) >>),
                        type)
         IN IF value.type = "int"
            THEN IF type \notin DOMAIN TYPE_SIZES THEN Crash(c, "KeyError", node)
                 ELSE load(<< "." \o TYPE_DIRECTIVES[type] \o " " \o ToString(value.num) >>)
            ELSE IF value.type = "list" /\ AllInts(value)
            THEN IF type \notin DOMAIN TYPE_SIZES THEN Crash(c, "KeyError", node)
                 ELSE load(DataLines(TYPE_DIRECTIVES[type], value.kids))
            ELSE Raise(c, "invalid data type", node)

\* the branch of a call, lines 890-906
GenCall(c, node, r) ==
    LET func == DictGet(c.funcs, HeadWord(node))
        n == Len(node.kids) - 1
        c1 == GenArgs(c, node, func.args, n, r)
    IN IF n # Len(func.args) THEN Raise(c, "wrong number of arguments", node)
       ELSE IF Failed(c1) THEN c1
       ELSE Return(Emit(c1, << "jal #" \o HeadWord(node) >>
                               \o (IF r # 1 THEN << "mov $1 " \o Reg(r) >> ELSE << >>)
                               \o [i \in 1..n |-> "pop $0"]),
                   func.type)

\* the files an (import ...) can open: path -> text
Files ==
    ("p" :> "(fn uint8 f ((uint8 a)) (return a)) (static uint16 g 7)") @@
    ("q" :> "(@private) (fn void hid ()) (fn void pub ()) (@private) (static uint8 s) (static uint8 t) (@private) (struct cell (uint8 v)) (struct pair (uint8 a) (uint8 b))") @@
    ("bad" :> "(fn void f () (return)) (fn void f ())")

RECURSIVE CompileNodes(_, _, _)
\* for node in ast: self.generate_expression(node, root=True), from node i on
CompileNodes(c, ast, i) ==
    IF i > Len(ast.kids) THEN c
    ELSE LET c1 == Gen(c, ast.kids[i], TRUE, FALSE, 1)
         IN IF Failed(c1) THEN c1 ELSE CompileNodes(c1, ast, i + 1)

\* the else branch of compile, lines 232-239
ResetForDefinitions(c) ==
    [c EXCEPT !.code = << >>, !.funcs = EmptyDict, !.structs = EmptyDict,
              !.vars = << EmptyDict >>, !.line = 0]

\* lines 354-361 of import: the sub-compiler after compiler.compile(parse(code))
ImportedFrom(path) ==
    IF path \notin DOMAIN Files
    THEN Crash(NewCompiler("<unknown>", FALSE, "loose", TRUE, TRUE), "FileNotFoundError",
               NoNode)
    ELSE CompileNodes(ResetForDefinitions(NewCompiler("<unknown>", FALSE, "loose", TRUE, TRUE)),
                      parse(Files[path], 1, 1), 1)

\* the directive set whatever the mode of the compiler
SetPrivateAlways(c) == [c EXCEPT !.private = TRUE]

\* lines 340-341: if self.import_mode: self.directives["private"] = True
SetPrivate(c) == [c EXCEPT !.private = IF c.import_mode THEN TRUE ELSE @]

\* the branch cond, lines 491-507
GenCondForm(c, node, statement, r) ==
    IF Len(node.kids) = 1 \/ Len(node.kids) % 2 # 1
    THEN Raise(c, "wrong number of arguments", node)
    ELSE IF ~statement THEN Raise(c, "cond statement cannot be used in expression", node)
    ELSE LET c1 == GenCond(c, node, 0, r)
         IN IF Failed(c1) THEN c1
            ELSE Emit(c1, << "#__cond_" \o NodeId(node) \o "_end:" >>)

\* the branch switch, lines 509-528
GenSwitchForm(c, node, statement, r) ==
    IF Len(node.kids) <= 2 \/ Len(node.kids) % 2 # 0
    THEN Raise(c, "wrong number of arguments", node)
    ELSE IF ~statement THEN Raise(c, "switch statement cannot be used in expression", node)
    ELSE LET c1 == Gen(c, node.kids[2], FALSE, FALSE, r)
             c2 == Emit(c1, << "mov " \o Reg(r) \o " " \o Reg(r + 1) >>)
             c3 == GenSwitch(c2, node, 0, r)
         IN IF Failed(c1) THEN c1
            ELSE IF Failed(c3) THEN c3
            ELSE Emit(c3, << "#__switch_" \o NodeId(node) \o "_end:" >>)

\* the branch @private, lines 336-341
GenPrivate(c, node) ==
    IF Len(node.kids) # 1 THEN Raise(c, "wrong number of arguments", node)
    ELSE SetPrivate(c)

\* an asm form that emits its lines in the definitions pass too
GenAsmInBothPasses(c, node) ==
    IF Len(node.kids) = 1 THEN Raise(c, "wrong number of arguments", node)
    ELSE GenAsm(c, node, 2)

\* the branch asm, lines 861-870
GenAsmForm(c, node) ==
    IF Len(node.kids) = 1 THEN Raise(c, "wrong number of arguments", node)
    ELSE IF c.definitions_mode THEN c
    ELSE GenAsm(c, node, 2)

\* the last two branches, lines 890-909
GenCallOrUndefined(c, node, r) ==
    IF node.kids[1].type = "list" THEN Crash(c, "TypeError", node)
    ELSE IF node.kids[1].type = "word" /\ DictHas(c.funcs, HeadWord(node))
    THEN GenCall(c, node, r)
    ELSE Raise(c, "undefined function", node)

\* the chain of branches of generate_expression from line 298 on: the
\* branch is chosen by the type of the node and by node[0].value, and the
\* conditions of the branches exclude one another
Form(c, node, statement, r) ==
    LET head == IF node.type = "list" /\ Len(node.kids) > 0 THEN HeadWord(node) ELSE ""
        None(x) == IF Failed(x) THEN x ELSE Return(x, "None")
    IN CASE node.type = "int" ->
              Return(Emit(c, << "mov " \o ToString(node.num) \o " " \o Reg(r) >>), "int")
         [] node.type = "word" -> GenWord(c, node, r)
         [] node.type = "list" /\ Len(node.kids) = 0 -> Crash(c, "IndexError", node)
         [] head = "@private" -> None(GenPrivate(c, node))
         [] head = "import" ->
              None(GenImport(c, node, ImportedFrom(Chars(node.kids[2].kids, 1))))
         [] head = "fn" -> None(GenFn(c, node, r))
         [] head = "struct" -> None(GenStruct(c, node))
         [] head = "while" -> None(GenWhile(c, node, statement, r))
         [] head = "cond" -> None(GenCondForm(c, node, statement, r))
         [] head = "switch" -> None(GenSwitchForm(c, node, statement, r))
         [] head = "static" -> None(GenStatic(c, node))
         [] head = "local" -> GenLocal(c, node, statement, r)
         [] head = "return" -> GenReturn(c, node, statement, r)
         [] InList(head, BinaryOperators) -> GenOperator(c, node, r)
         [] head = "set-var" -> GenSetVar(c, node, r)
         [] head \in {"set-8", "set-16", "set-32"} -> GenSetN(c, node, r)
         [] head \in {"get-8", "get-16", "get-32"} -> GenGetN(c, node, r)
         [] head \in {"get", "set"} -> GenField(c, node, r)
         [] head = "size" -> GenSize(c, node, r)
         [] head = "cast" -> GenCast(c, node, r)
         [] head = "addr" -> GenAddr(c, node, r)
         [] head = "bool" -> GenBool(c, node, r)
         [] head \in {"true", "false"} -> GenTruth(c, node)
         [] head = "elem-var" -> GenElemVar(c, node, r)
         [] head \in {"elem-8", "elem-16", "elem-32"} -> GenElemN(c, node, r)
         [] head = "len-var" -> GenLenVar(c, node, r)
         [] head = "asm" -> None(GenAsmForm(c, node))
         [] head = "data" -> GenData(c, node, r)
         [] OTHER -> GenCallOrUndefined(c, node, r)

\* the checks of lines 277-287: the message of the exception, "" for none
PlaceError(node, root) ==
    IF root
    THEN IF node.type # "list" THEN "top-level expression must be list"
         ELSE IF Len(node.kids) = 0 THEN "IndexError"
         ELSE IF node.kids[1].type = "int" THEN "TypeError"
         ELSE IF node.kids[1].type = "list"
         THEN IF Len(node.kids[1].kids) = 0 THEN "IndexError"
              ELSE "invalid top-level expression"
         ELSE IF ~InList(HeadWord(node), top_level \o <<"asm">>)
                 /\ CharAt(HeadWord(node), 1) # "@"
         THEN "invalid top-level expression"
         ELSE ""
    ELSE IF node.type # "list" THEN ""
    ELSE IF Len(node.kids) = 0 THEN "IndexError"
    ELSE IF InList(HeadWord(node), top_level) THEN "expression must be top-level"
    ELSE ""

\* the comment line of lines 289-296
Comment(c, node) ==
    IF c.comment /\ ~c.definitions_mode /\ node.line > c.line
    THEN Emit([c EXCEPT !.line = node.line],
              << "; >>> " \o c.path \o ":" \o ToString(node.line)
                 \o (IF Len(c.source_code) > 0
                     THEN " | " \o c.source_code[node.line]
                     ELSE "") >>)
    ELSE c

\* lines 277-909 on the node the macros left, t
Placed(c, t, root, statement, r) ==
    IF t.err # "" THEN [c EXCEPT !.err = t.err, !.errat = t.errat]
    ELSE IF PlaceError(t.node, root) # "" THEN Raise(c, PlaceError(t.node, root), t.node)
    ELSE Form(Comment(c, t.node), t.node, statement, r)

\* generate_expression(node, root, statement, r) without the history
Lower(c, node, root, statement, r) ==
    Placed(c,
           IF ~c.definitions_mode /\ root THEN Transform(c, node)
           ELSE [node |-> node, err |-> "", errat |-> ""],
           root, statement, r)

\* the compiler out a call left, the call added to the history
Traced(c, node, root, statement, r, out) ==
    [out EXCEPT !.trace =
           Append(@, [id |-> NodeId(node),
                      node |-> node,
                      head |-> IF node.type = "list" /\ Len(node.kids) > 0
                               THEN HeadWord(node) ELSE "",
                      type |-> node.type,
                      root |-> root,
                      statement |-> statement,
                      r |-> r,
                      definitions_mode |-> c.definitions_mode,
                      sp_in |-> c.sp_offset,
                      sp_out |-> out.sp_offset,
                      code_in |-> c.code,
                      code_out |-> out.code,
                      pre_in |-> c.prepended,
                      pre_out |-> out.prepended,
                      vars_in |-> c.vars,
                      vars_out |-> out.vars,
                      scopes_in |-> Len(c.vars),
                      scopes_out |-> Len(out.vars),
                      first |-> Len(c.trace) + 1,
                      err |-> out.err,
                      errat |-> out.errat])]

\* Compiler.generate_expression(node, root, statement, r); the call is added
\* to the history as it ends
Gen(c, node, root, statement, r) ==
    Traced(c, node, root, statement, r, Lower(c, node, root, statement, r))

\* no call of merge_types is under way
InitMt ==
    /\ mt_mode = "loose"
    /\ mt_l = "int"
    /\ mt_r = "int"
    /\ mt_pc = "idle"
    /\ mt_result = Returned("None")

\* no compilation is under way
InitCc ==
    /\ k_src = << >>
    /\ k_f = 1
    /\ k_ast = NoNode
    /\ k_comp = NewCompiler("<unknown>", FALSE, "loose", FALSE, FALSE)
    /\ k_pc = "idle"
    /\ k_i = 0
    /\ k_out = << >>
    /\ k_hist = << >>

\* the machine is not running
InitVm ==
    /\ vm_pc = 0
    /\ vm_stack = << >>
    /\ vm_fp = 0

InitKl == InitMt /\ InitCc /\ InitVm

\* one call of merge_types
MergeTypes ==
    /\ mt_pc = "call"
    /\ mt_result' = merge_types(mt_mode, mt_l, mt_r)
    /\ mt_pc' = IF merge_types(mt_mode, mt_l, mt_r).kind = "raise" THEN "raised" ELSE "returned"
    /\ UNCHANGED << mt_mode, mt_l, mt_r >>
    /\ UNCHANGED ccvars
    /\ UNCHANGED asmvars
    /\ UNCHANGED vmvars

Init == InitAsm /\ InitKl

Spec == Init /\ [][Next]_vars

\* merge_types on its own: every mode and every pair of type names
InitMerge ==
    /\ InitAsm
    /\ InitCc
    /\ InitVm
    /\ mt_mode \in Modes
    /\ mt_l \in TypeNames
    /\ mt_r \in TypeNames
    /\ mt_pc = "call"
    /\ mt_result = Returned("None")

NextMerge == MergeTypes

SpecMerge == InitMerge /\ [][NextMerge]_vars

(***************************************************************************)
(* The KL compiler: run and compile                                        *)
(***************************************************************************)
\* the command lines of the model: each is the sequence of the texts of its
\* files
Units ==
    { << "(fn void main ())" >>,
      << "(static uint8 g 3) (fn uint8 f ((uint8 a) (uint16 b)) (local uint8 x 5) (return (+ a x)))" >>,
      << "(fn void f () (while 1 (local uint8 x) (local uint8 y 2)) (return))" >>,
      << "(fn void f () (while (bool) (while 0)) (while 2))" >>,
      << "(fn void f () (cond 1 ((local uint8 x)) (true) ()))" >>,
      << "(fn void f () (cond 1 ((return)) 2 ((while 0 (local uint8 x)))))" >>,
      << "(fn void f () (switch 1 2 ((local uint8 x)) 3 ((return))))" >>,
      << "(fn void f () (switch 1 2 ((cond 3 ()))))" >>,
      << "(import \"p\") (fn void main () (f 1) (set-var g 2))" >>,
      << "(fn void main () (f 1)) (import \"p\")" >>,
      << "(import \"q\") (fn void main () (pub))" >>,
      << "(import \"q\") (fn void main () (hid))" >>,
      << "(import \"q\") (static uint8 s 1) (fn void main () (set-var s t))" >>,
      << "(import \"bad\")" >>,
      << "(import \"nofile\")" >>,
      << "(@private) (fn void f ()) (@private) (static uint8 s) (fn void g () (f) (set-var s 1))" >>,
      << "(fn uint8 f ((uint8 a) (uint8 b)) (return a)) (fn void main () (local uint8 r (f 1 (f 2 3))))" >>,
      << "(fn uint8 f ((uint8 a)) (return a)) (fn void g ()) (fn void main () (g) (+ 1 (f 2)))" >>,
      << "(fn void f ((int8 a)) (f 1 2))" >>,
      << "(fn void main () (+ 1 (while 1)))" >>,
      << "(fn void f ((uint8 a)) (f (return)))" >>,
      << "(fn void main () (local uint8 x (cond 1 ())))" >>,
      << "(fn void main () (while (local uint8 z)))" >>,
      << "(fn void f ((uint8 a)) (local uint8 v) (while 1 (local uint8 x) (cond 1 ((local uint8 y) (return))) (switch 1 2 ((local uint8 z) (while 0)))) (f (local uint8 w)))" >>,
      << "(fn void main () (cond (switch 1 1 ()) ()))" >>,
      << "(fn void main () (switch (return 1) 1 ()))" >>,
      << "(fn void main () (local uint8 x) (local uint8 x))" >>,
      << "(fn void main () (str \"hi\") (bool (true)) (bool))" >>,
      << "(fn void main () (str \"a\") (str \"b\")\n (str \"c\") (data uint8 7))" >>,
      << "(fn void main ()\n  (local uint8 x 1)\n  (while (< x 3)\n    (set-var x (+ x 1))))" >>,
      << "(fn void main () (local uint8 x 1) (local uint16 y x) (local int16 z y))" >>,
      << "(fn void a () (return) (return 1))\n(fn void b () (while 1 (return)))" >>,
      << "(asm \"nop\") (fn void m () (asm \"x\") (m) (n))" >>,
      << "(array x)" >>,
      << "(array uint8 buf (1 2 3))" >>,
      << "(static uint8 g) (fn void f ((uint8 a)) (local uint8 x 1) (while 1 (local uint8 x 2) (local uint8 a 3) (local uint8 g 4) x a g) x a g)" >>,
      << "(fn void f () (while 1 (local uint8 t) t) t)" >>,
      << "(fn void f () (local uint8 v) v) (fn void h () v)" >>,
      << "(static uint8 a (1 2 3)) (static uint16 s 5) (fn void m () (len-var a) (len-var s))" >>,
      << "(fn void m () (g) (set-var s 1)) (fn void g ()) (static uint8 s)" >>,
      << "x" >>,
      << "(fn void f () (f (fn void g ())))" >>,
      << "(fn void f ()) (fn void f ())" >>,
      << "(fn void f () (while 1))", "(fn void g () (while 1) (f))" >> }

\* run, lines 918-925, and compile, lines 226-239: the file is read and
\* parsed, and the definitions pass begins
OpenFile ==
    /\ k_pc = "open"
    /\ k_f <= Len(k_src)
    /\ k_ast' = parse(k_src[k_f], 1, 1)
    /\ k_comp' = ResetForDefinitions(
                     [k_comp EXCEPT !.path = "f" \o ToString(k_f),
                                    !.source_code = IF k_src[k_f] = "" THEN << >>
                                                    ELSE Split(k_src[k_f]),
                                    !.definitions_mode = TRUE])
    /\ k_pc' = "definitions"
    /\ k_i' = 1
    /\ UNCHANGED << k_src, k_f, k_out, k_hist >>
    /\ UNCHANGED << asmvars, mtvars, vmvars >>

\* one pass of the loop of compile, lines 241-242, in the definitions pass;
\* an exception ends run with exit(1)
DefinitionStep ==
    /\ k_pc = "definitions"
    /\ k_i <= Len(k_ast.kids)
    /\ k_comp' = Gen(k_comp, k_ast.kids[k_i], TRUE, FALSE, 1)
    /\ k_pc' = IF Failed(k_comp') THEN "exit" ELSE "definitions"
    /\ k_i' = k_i + 1
    /\ UNCHANGED << k_src, k_f, k_ast, k_out, k_hist >>
    /\ UNCHANGED << asmvars, mtvars, vmvars >>

\* compile, line 229: the definitions pass is over
EndDefinitions ==
    /\ k_pc = "definitions"
    /\ k_i > Len(k_ast.kids)
    /\ k_comp' = [k_comp EXCEPT !.definitions_mode = FALSE]
    /\ k_hist' = Append(k_hist, k_comp)
    /\ k_pc' = "emission"
    /\ k_i' = 1
    /\ UNCHANGED << k_src, k_f, k_ast, k_out >>
    /\ UNCHANGED << asmvars, mtvars, vmvars >>

\* one pass of the loop of compile, lines 241-242, in the emission pass
EmissionStep ==
    /\ k_pc = "emission"
    /\ k_i <= Len(k_ast.kids)
    /\ k_comp' = Gen(k_comp, k_ast.kids[k_i], TRUE, FALSE, 1)
    /\ k_pc' = IF Failed(k_comp') THEN "exit" ELSE "emission"
    /\ k_i' = k_i + 1
    /\ UNCHANGED << k_src, k_f, k_ast, k_out, k_hist >>
    /\ UNCHANGED << asmvars, mtvars, vmvars >>

\* run, lines 937-938: the code is written and the loop goes to the next file
WriteOut ==
    /\ k_pc = "emission"
    /\ k_i > Len(k_ast.kids)
    /\ k_out' = Append(k_out, k_comp.code)
    /\ k_f' = k_f + 1
    /\ k_pc' = IF k_f < Len(k_src) THEN "open" ELSE "done"
    /\ UNCHANGED << k_src, k_ast, k_comp, k_i, k_hist >>
    /\ UNCHANGED << asmvars, mtvars, vmvars >>

\* run: the compiler of the command line, lines 915-916
InitCompile ==
    /\ InitAsm
    /\ InitMt
    /\ InitVm
    /\ k_src \in Units
    /\ k_f = 1
    /\ k_ast = NoNode
    /\ \E comment \in BOOLEAN, type_checking \in Modes :
           k_comp = NewCompiler("<unknown>", comment, type_checking, FALSE, FALSE)
    /\ k_pc = "open"
    /\ k_i = 0
    /\ k_out = << >>
    /\ k_hist = << >>

NextCompile ==
    \/ OpenFile
    \/ DefinitionStep
    \/ EndDefinitions
    \/ EmissionStep
    \/ WriteOut

SpecCompile == InitCompile /\ [][NextCompile]_vars

(***************************************************************************)
(* The encoding of single lines: a file of two lines, the second drawn     *)
(* from every mnemonic of the opcode table with every register, and from   *)
(* the data directives, those the compiler writes for a static included    *)
(***************************************************************************)
\* the register operands
Registers == 0..15

\* the immediates of the instruction lines
Immediates == { Num(0), Num(287454020), Lbl("f") }

\* the values of the data directives of one size
ValuesOf(kind) ==
    CASE kind = "d_byte" -> {0, 68, 255}
      [] kind = "d_word" -> {0, 13124, 65535}
      [] OTHER -> {0, 287454020, 2147483647}

\* the repeat counts of the data directives, -1 for none written
Amounts == {-1, 0, 1, 3}

\* the values K of the units (static uint32 x K)
StaticValues == {0, 255, 65536, 287454020, 2147483647}

\* the mnemonics of a shape
MnemonicsOf(shape) == { mn \in DOMAIN INSTRUCTIONS : INSTRUCTIONS[mn].operands = shape }

\* the instruction lines: every mnemonic with every register
InstructionLines ==
    { Instr(mn, << >>, << >>) : mn \in MnemonicsOf("") }
    \cup { Instr(mn, << a, b >>, << >>) : mn \in MnemonicsOf("rr"), a \in Registers, b \in Registers }
    \cup { Instr(mn, << a >>, << >>) : mn \in MnemonicsOf("r"), a \in Registers }
    \cup { Instr(mn, << a >>, << i >>) :
               mn \in MnemonicsOf("ri") \cup MnemonicsOf("ir"), a \in Registers, i \in Immediates }
    \cup { Instr(mn, << >>, << i >>) : mn \in MnemonicsOf("i"), i \in Immediates }
    \cup { Instr(mn, << >>, << i, j >>) : mn \in MnemonicsOf("ii"), i \in Immediates, j \in Immediates }

\* the data directive lines
DirectiveLines ==
    UNION { { Data(kind, Num(v), n) : v \in ValuesOf(kind), n \in Amounts } :
                kind \in {"d_byte", "d_word", "d_dword"} }

\* Compiler.compile on the text of a unit, lines 225-242: the lines of the
\* output
Compiled(text) ==
    CompileNodes(
        [CompileNodes([ResetForDefinitions(NewCompiler("f", FALSE, "loose", FALSE, FALSE))
                           EXCEPT !.definitions_mode = TRUE],
                      parse(text, 1, 1), 1)
             EXCEPT !.definitions_mode = FALSE],
        parse(text, 1, 1), 1).code

\* the output of the compiler for the unit (static uint32 x K)
CompiledStatic(K) == Compiled("(static uint32 x " \o ToString(K) \o ")")

\* the node of the assembler for a label line or a data directive with a
\* decimal value and no count
ReadLine(text) ==
    IF CharAt(text, 1) = "#"
    THEN LabelLine(SubSeq(text, 2, Len(text) - 1))
    ELSE LET gap == CHOOSE i \in 1..Len(text) : CharAt(text, i) = " "
         IN Data("d_" \o SubSeq(text, 2, gap - 1),
                 Num(DigitsValue(SubSeq(text, gap + 1, Len(text)), 1, 10, 0)), -1)

\* the label and the directive of the compiled units (static uint32 x K)
StaticLines == UNION { { ReadLine(CompiledStatic(K)[n]) : n \in 2..3 } : K \in StaticValues }

\* the lines drawn for the first line of the file
FirstLines == { LabelLine("x"), LabelLine("f"), Instr("push", << 12 >>, << >>) }

\* the lines drawn for the second line of the file
EncodeLines == InstructionLines \cup DirectiveLines \cup StaticLines

\* assemble on the first line of the file
AssembleFirst == nnodes = 0 /\ \E node \in FirstLines : AssembleNode(node)

\* assemble on the second line of the file
AssembleSecond == nnodes = 1 /\ \E node \in EncodeLines : AssembleNode(node)

NextEncode ==
    \/ \E pragmas \in Pragmas : Preprocess(pragmas)
    \/ AssembleFirst
    \/ AssembleSecond

SpecEncode == Init /\ [][NextEncode]_vars

(***************************************************************************)
(* The machine on the output of a unit: the stack, the frame base $12 and  *)
(* the stack pointer $15 as the lines of the output move them.  A slot is  *)
(* known by the line that pushed it; values are not computed, and a bf is  *)
(* taken or not.                                                           *)
(***************************************************************************)
\* the deepest stack the machine is run to
MaxStack == 12

\* the units the machine runs
RunUnits ==
    { << "(fn void f ((uint8 a)) (cond a ((local uint8 x 1))) (local uint8 y 2) y)" >>,
      << "(fn void f ((uint8 a)) (switch a 1 ((local uint8 x 1))) (local uint8 y 2) y)" >>,
      << "(fn void f ((uint8 a)) (local uint8 y 2) (while a (local uint8 x 1) (cond a ((local uint8 z 3))) x) y)" >>,
      << "(fn uint8 f ((uint8 a) (uint8 b)) (local uint8 x a) (while b (local uint8 y x) y b) (return x)) (fn void main () (local uint8 v 1) (f v 2) v)" >> }

\* the line starts with the prefix
Starts(line, prefix) == Len(line) >= Len(prefix) /\ SubSeq(line, 1, Len(prefix)) = prefix

\* the program of the machine: the output of the unit
Program == k_comp.code

\* the machine has stopped
Halted == Len(Program) + 1

\* the line that defines the label an operand names
LabelLineOf(operand) ==
    IF \E n \in 1..Len(Program) : Program[n] = operand \o ":"
    THEN CHOOSE n \in 1..Len(Program) : Program[n] = operand \o ":"
    ELSE Halted

\* the slots of the stack: the value of a register, the frame base saved by
\* a prologue, the return address of a call
ValueSlot(by) == [kind |-> "value", by |-> by, fp |-> 0]
BaseSlot(by, fp) == [kind |-> "base", by |-> by, fp |-> fp]
ReturnSlot(by) == [kind |-> "return", by |-> by, fp |-> 0]

\* the machine after a line: where it goes on, the stack and the frame base
Machine(at, stack, fp) == [pc |-> at, stack |-> stack, fp |-> fp]

\* the stack without its top slot
Dropped(stack) == SubSeq(stack, 1, Len(stack) - 1)

\* the line at n of the program on the stack and the frame base; jump
\* tells whether a bf is taken
Executed(n, stack, fp, jump) ==
    LET line == Program[n]
        top == stack[Len(stack)]
    IN CASE line = "push $12" -> Machine(n + 1, Append(stack, BaseSlot(n, fp)), fp)
         [] Starts(line, "push $") /\ line # "push $12" ->
                Machine(n + 1, Append(stack, ValueSlot(n)), fp)
         [] Starts(line, "pop $") /\ stack = << >> -> Machine(Halted, stack, fp)
         [] line = "pop $12" /\ stack # << >> ->
                IF top.kind = "base" THEN Machine(n + 1, Dropped(stack), top.fp)
                ELSE Machine(Halted, stack, fp)
         [] Starts(line, "pop $") /\ line # "pop $12" /\ stack # << >> ->
                Machine(n + 1, Dropped(stack), fp)
         [] line = "mov $15 $12" -> Machine(n + 1, stack, Len(stack))
         [] line = "mov $12 $15" ->
                IF fp <= Len(stack) THEN Machine(n + 1, SubSeq(stack, 1, fp), fp)
                ELSE Machine(Halted, stack, fp)
         [] Starts(line, "jal #") ->
                Machine(LabelLineOf(SubSeq(line, 5, Len(line))),
                        Append(stack, ReturnSlot(n)), fp)
         [] line = "ret" ->
                IF stack # << >> /\ top.kind = "return" /\ top.by > 0
                THEN Machine(top.by + 1, Dropped(stack), fp)
                ELSE Machine(Halted, stack, fp)
         [] Starts(line, "b #") -> Machine(LabelLineOf(SubSeq(line, 3, Len(line))), stack, fp)
         [] Starts(line, "bf #") ->
                IF jump THEN Machine(LabelLineOf(SubSeq(line, 4, Len(line))), stack, fp)
                ELSE Machine(n + 1, stack, fp)
         [] OTHER -> Machine(n + 1, stack, fp)

\* the lines of the program where a function starts
Entries ==
    { n \in 1..Len(Program) :
          /\ n + 1 <= Len(Program)
          /\ Starts(Program[n], "#") /\ Program[n + 1] = "push $12" }

\* a caller outside the program calls a function of the unit
Enter ==
    /\ k_pc = "done"
    /\ vm_pc = 0
    /\ \E n \in Entries : vm_pc' = n
    /\ vm_stack' = << ReturnSlot(0) >>
    /\ vm_fp' = 0
    /\ UNCHANGED << asmvars, mtvars, ccvars >>

\* the machine takes the line it is at
Step ==
    /\ vm_pc \in 1..Len(Program)
    /\ Len(vm_stack) < MaxStack
    /\ \E jump \in BOOLEAN :
           LET after == Executed(vm_pc, vm_stack, vm_fp, jump)
           IN /\ vm_pc' = after.pc
              /\ vm_stack' = after.stack
              /\ vm_fp' = after.fp
    /\ UNCHANGED << asmvars, mtvars, ccvars >>

\* run of the compiler on a unit, then the machine on the output
InitRun ==
    /\ InitAsm
    /\ InitMt
    /\ InitVm
    /\ k_src \in RunUnits
    /\ k_f = 1
    /\ k_ast = NoNode
    /\ k_comp = NewCompiler("<unknown>", FALSE, "loose", FALSE, FALSE)
    /\ k_pc = "open"
    /\ k_i = 0
    /\ k_out = << >>
    /\ k_hist = << >>

NextRun ==
    \/ OpenFile
    \/ DefinitionStep
    \/ EndDefinitions
    \/ EmissionStep
    \/ WriteOut
    \/ Enter
    \/ Step

SpecRun == InitRun /\ [][NextRun]_vars

(***************************************************************************)
(* Properties of the assembler and linker                                  *)
(***************************************************************************)
\* the 4 bytes of c at buffer offset off
Bytes4(c, off) == SubSeq(c, off + 1, off + 4)

PlaceholderBytes == <<255, 255, 255, 255>>

Range(q) == { q[i] : i \in 1..Len(q) }

Linked == 1..Len(files)

\* the files that both export and define s
Exporters(s) == { j \in Linked : s \in files[j].exports /\ DictHas(files[j].defs, s) }

\* the items of the uses table of linked file i
FileUses(i) == Range(files[i].uses)

\* the buffer offsets some uses table has recorded
RecordedOffsets ==
    UNION { { u.k : u \in FileUses(i) } : i \in Linked }
    \cup { u.k : u \in Range(symbols_use) }

\* C1: after the final link, each use site of a symbol that its file imports
\* and that exactly one file exports and defines holds the little-endian
\* absolute address of the exporter's label, whatever the order of the files.
C1_ImportedUseHoldsExporterAddress ==
    pc = "done" =>
        \A site \in sites :
            ( /\ site.symbol \in files[site.file].imports
              /\ Cardinality(Exporters(site.symbol)) = 1 )
            => \A j \in Exporters(site.symbol) :
                   /\ site.off + 4 <= Len(code)
                   /\ Bytes4(code, site.off) = PackI32(DictGet(files[j].defs, site.symbol))

\* two 4-byte fields, at buffer offsets a and b, share a byte
Overlap(a, b) == a - b < 4 /\ b - a < 4

\* a write of the pass after write number n touches the bytes of write n
WrittenOverLater(writes, n) ==
    \E m \in (n + 1)..Len(writes) : Overlap(writes[m].at, writes[n].at)

\* C2: the per-file link overwrites, for every recorded use whose symbol a
\* label of the same file defines, the 4 bytes at the use's buffer position
\* (its absolute address minus the file's pos_offset) with the little-endian
\* signed 32-bit absolute address of that label (its buffer offset plus
\* pos_offset); the image the link leaves holds them there, unless a later
\* write of the same link went over them.
C2_LocalUsePatched ==
    \A i \in Linked : \A u \in FileUses(i) :
        DictHas(files[i].defs, u.v.symbol) =>
            LET at == u.v.pos - files[i].off
                l == CHOOSE l \in labels : l.file = i /\ l.name = u.v.symbol
                addr == PackI32(l.k + files[i].off)
            IN \E n \in 1..Len(files[i].writes) :
                   /\ files[i].writes[n] = Write(u.k, at, addr)
                   /\ ~WrittenOverLater(files[i].writes, n) =>
                          /\ at + 4 <= Len(files[i].after)
                          /\ Bytes4(files[i].after, at) = addr

\* C2 happens: a relocated file used a symbol its own label defines, and the
\* file has been linked.
C2_Witness ==
    \E i \in Linked : \E u \in FileUses(i) :
        /\ DictHas(files[i].defs, u.v.symbol)
        /\ files[i].off > 0
        /\ DictGet(files[i].defs, u.v.symbol) > 512

\* the tables of file i: those of its link, or the live ones while it is assembled
DefsOfFile(i) == IF i <= Len(files) THEN files[i].defs ELSE symbols_def

\* C3: once @RELOC:X is processed with n bytes in the image, every label
\* defined afterwards (until another @RELOC) at buffer offset k >= n is
\* recorded with the absolute address X + (k - n).
C3_RelocatedLabelAddress ==
    \A l \in labels :
        l.nrelocs > 0 =>
            LET m == marks[l.nrelocs]
            IN /\ l.k >= m.n
               /\ DictGet(DefsOfFile(l.file), l.name) = m.origin + (l.k - m.n)

\* C3 happens: a @RELOC came after some bytes, and a later file defined a
\* label past the first byte that follows the token.
C3_Witness ==
    \E l \in labels :
        /\ l.nrelocs > 0
        /\ marks[l.nrelocs].n > 0
        /\ l.k > marks[l.nrelocs].n
        /\ l.file <= Len(files)

\* C4: a second final link leaves the image byte-for-byte as the first final
\* link left it.
C4_FinalLinkIdempotent == pc = "relinked" => code = output

\* C4 happens: the final link ran twice and had imported uses to patch.
C4_Witness ==
    /\ pc = "relinked"
    /\ \E u \in Range(global_symbols_use) :
           /\ DictHas(global_symbols_def, u.v.symbol)
           /\ Bytes4(code, u.k) # PlaceholderBytes

\* the least element of a non-empty set of numbers
Least(S) == CHOOSE x \in S : \A y \in S : x <= y

\* C5: a name is published to the global definitions at most once: the first
\* file that exports and defines it fixes its address, a later file that
\* exports and defines it gets "duplicate symbol" and changes nothing.
C5_FirstExportWins ==
    \A s \in Symbols :
        IF Exporters(s) = {}
        THEN ~DictHas(global_symbols_def, s)
        ELSE /\ DictHas(global_symbols_def, s)
             /\ DictGet(global_symbols_def, s) = DictGet(files[Least(Exporters(s))].defs, s)
             /\ \A j \in Exporters(s) \ {Least(Exporters(s))} :
                    Err("duplicate symbol", s) \in Range(files[j].errs)
             /\ Err("duplicate symbol", s) \notin Range(files[Least(Exporters(s))].errs)

\* C5 happens: two files export and define the same name at different
\* addresses.
C5_Witness ==
    \E s \in Symbols : \E i, j \in Exporters(s) :
        /\ i < j
        /\ DictGet(files[i].defs, s) # DictGet(files[j].defs, s)

\* the uses of linked file i that its link could not resolve
UnresolvedIn(i) ==
    { u \in FileUses(i) :
          ~DictHas(files[i].defs, u.v.symbol) /\ u.v.symbol \notin files[i].imports }

\* the imported uses the final link could not resolve
UnresolvedFinal ==
    { u \in Range(global_symbols_use) : ~DictHas(global_symbols_def, u.v.symbol) }

\* a link pass, from the image `before` to the image `after` with the log
\* `writes`, left alone the use at buffer offset k: it wrote nothing for the
\* use, and the 4 bytes at k are as they were unless the write of another
\* use went over them
LeftAlone(k, before, after, writes) ==
    /\ \A n \in 1..Len(writes) : writes[n].key # k
    /\ ( /\ k + 4 <= Len(before)
         /\ \A n \in 1..Len(writes) : ~Overlap(writes[n].at, k) )
       => /\ k + 4 <= Len(after)
          /\ Bytes4(after, k) = Bytes4(before, k)

\* a link pass wrote addr at the buffer offset of the use with key k
Patched(k, addr, writes) ==
    \E n \in 1..Len(writes) : writes[n] = Write(k, k, PackI32(addr))

C7_EveryReferenceRecorded ==
    pc = "assemble" =>
        /\ \A site \in sites :
               site.file = nfiles =>
                   /\ DictHas(symbols_use, site.off)
                   /\ DictGet(symbols_use, site.off).symbol = site.symbol
                   /\ DictGet(symbols_use, site.off).pos = site.off + pos_offset
        /\ \A u \in Range(symbols_use) : u.k + 4 <= Len(code)

\* the buffer indices (from 1) inside a 4-byte field at a recorded use offset
PatchableIndices == { k + d : k \in RecordedOffsets, d \in 1..4 }

\* the image is as long as the bytes the files emitted, differs from them
\* only inside the 4-byte fields at recorded use offsets, and is what is
\* written
ImageOfEmittedBytes ==
    /\ Len(code) = Len(raw)
    /\ \A i \in 1..Len(code) : code[i] # raw[i] => i \in PatchableIndices
    /\ pc = "done" => output = code

\* a step that processes a @RELOC token changes pos_offset and nothing else
\* of the assembler
RelocChangesOnlyPosOffset ==
    nrelocs' # nrelocs =>
        UNCHANGED << code, global_symbols_def, global_symbols_use, symbols_def,
                     symbols_use, to_import, to_export, stderr, output >>

\* C8: the image is the concatenation of the bytes the files emitted: @RELOC
\* adds or removes no bytes and changes only pos_offset, the link passes
\* leave the length alone, and a link pass changes bytes only inside the
\* 4-byte fields at recorded use offsets.
C8_ImageIsConcatenation ==
    /\ []ImageOfEmittedBytes
    /\ [][RelocChangesOnlyPosOffset]_vars

(***************************************************************************)
(* Properties of merge_types                                               *)
(***************************************************************************)
IsIntType(t) == t \in DOMAIN TYPE_SIZES

\* C9: in strict and loose mode merge_types returns L when L = R, and the
\* concrete integer type when exactly one side is the literal type int and
\* the other is one of the six integer types.
C9_EqualAndLiteralMerge ==
    (mt_pc # "call" /\ mt_mode \in {"strict", "loose"}) =>
        /\ mt_l = mt_r => mt_result = Returned(mt_l)
        /\ (mt_l = "int" /\ IsIntType(mt_r)) => mt_result = Returned(mt_r)
        /\ (mt_r = "int" /\ IsIntType(mt_l)) => mt_result = Returned(mt_l)

\* C9 happens: a strict call merged a literal on the left with uint16.
C9_Witness ==
    /\ mt_pc = "returned"
    /\ mt_mode = "strict"
    /\ mt_l = "int"
    /\ mt_r = "uint16"
    /\ mt_result = Returned("uint16")

Unsigned == {"uint8", "uint16", "uint32"}

Signed == {"int8", "int16", "int32"}

\* C10: in loose mode two different unsigned types merge to the wider one,
\* and two different signed types merge to the wider one, in either order.
C10_LooseWidening ==
    ( /\ mt_pc # "call"
      /\ mt_mode = "loose"
      /\ mt_l # mt_r
      /\ ({mt_l, mt_r} \subseteq Unsigned \/ {mt_l, mt_r} \subseteq Signed) )
    => /\ mt_pc = "returned"
       /\ mt_result.value \in {mt_l, mt_r}
       /\ TYPE_SIZES[mt_result.value] >= TYPE_SIZES[mt_l]
       /\ TYPE_SIZES[mt_result.value] >= TYPE_SIZES[mt_r]

\* C10 happens: a loose call merged int32 on the left with int8.
C10_Witness ==
    /\ mt_pc = "returned"
    /\ mt_mode = "loose"
    /\ mt_l = "int32"
    /\ mt_r = "int8"
    /\ mt_result = Returned("int32")

\* one of the success rules of merging applies to the pair (l, r) in the mode
SuccessRuleApplies(mode, l, r) ==
    \/ l = r
    \/ l = "int" /\ IsIntType(r)
    \/ r = "int" /\ IsIntType(l)
    \/ mode = "loose" /\ ({l, r} \subseteq Unsigned \/ {l, r} \subseteq Signed)

MergeRaised == mt_pc = "raised" /\ mt_result = Raised("cannot merge types")

\* C11: in strict and loose mode merge_types raises 'cannot merge types' for
\* exactly the pairs no success rule applies to: in strict mode two different
\* concrete types, in loose mode a signed with an unsigned type, in both modes
\* void with a different type; in off mode it never raises.
C11_RaisesExactlyWithoutRule ==
    mt_pc # "call" =>
        /\ mt_mode = "off" => mt_pc = "returned"
        /\ mt_mode # "off" =>
              (MergeRaised <=> ~SuccessRuleApplies(mt_mode, mt_l, mt_r))
        /\ (mt_mode = "strict" /\ mt_l # mt_r /\ IsIntType(mt_l) /\ IsIntType(mt_r))
              => MergeRaised
        /\ (mt_mode = "loose" /\ ( (mt_l \in Signed /\ mt_r \in Unsigned)
                                   \/ (mt_l \in Unsigned /\ mt_r \in Signed) ))
              => MergeRaised
        /\ (mt_mode # "off" /\ mt_l # mt_r /\ "void" \in {mt_l, mt_r})
              => MergeRaised

\* C11 happens: a loose call was given uint8 and int8 and raised.
C11_Witness ==
    /\ mt_mode = "loose"
    /\ mt_l = "uint8"
    /\ mt_r = "int8"
    /\ MergeRaised

(***************************************************************************)
(* Claims about the lowering of KL forms                                   *)
(***************************************************************************)
\* the calls of generate_expression so far, in the order they ended
Calls == k_comp.trace

\* the calls of the emission pass that ended without an exception
Lowered == { i \in 1..Len(Calls) : ~Calls[i].definitions_mode /\ Calls[i].err = "" }

\* C12: for every statement form other than local (while, cond and switch
\* with local declarations in their bodies included), sp_offset after the
\* lowering of the statement equals sp_offset before it.
C12_StatementsKeepOffset ==
    \A i \in Lowered :
        Calls[i].statement /\ Calls[i].head # "local"
            => Calls[i].sp_out = Calls[i].sp_in

\* the lines call i appended to the code (lines put before the code by data
\* forms aside)
Added(i) ==
    SubSeq(Calls[i].code_out,
           (Calls[i].pre_out - Calls[i].pre_in) + Len(Calls[i].code_in) + 1,
           Len(Calls[i].code_out))

\* the calls made, directly or not, by call i
Nested(i) == Calls[i].first..(i - 1)

\* the positions of lines where the line is found
PlacesOf(lines, line) == { k \in 1..Len(lines) : lines[k] = line }

\* the three lines ending at position k are the lines that leave a function
ExitAt(lines, k) ==
    k >= 3 /\ SubSeq(lines, k - 2, k) = << "mov $12 $15", "pop $12", "ret" >>

\* the functions lowered in the emission pass
LoweredFns == { i \in Lowered : Calls[i].head = "fn" }

\* the return statements lowered inside call i
ReturnsOf(i) == { j \in Nested(i) : Calls[j].head = "return" /\ Calls[j].err = "" }

\* C13: every fn lowered in the emission pass has exactly one prologue,
\* push $12 then mov $15 $12, directly after the label of the function (the
\* second line of the function, after the comment line of comment mode),
\* and every exit of the function, each return statement and the end of the
\* body (also after a return), is mov $12 $15, pop $12, ret.
C13_PrologueAndExits ==
    \A i \in LoweredFns :
        LET lines == Added(i)
            at == IF CharAt(lines[1], 1) = ";" THEN 3 ELSE 2
        IN /\ Len(lines) >= at + 5
           /\ CharAt(lines[at], 1) = "#" /\ CharAt(lines[at], Len(lines[at])) = ":"
           /\ lines[at + 1] = "push $12" /\ lines[at + 2] = "mov $15 $12"
           /\ PlacesOf(lines, "push $12") = {at + 1}
           /\ PlacesOf(lines, "mov $15 $12") = {at + 2}
           /\ ExitAt(lines, Len(lines))
           /\ \A j \in ReturnsOf(i) : ExitAt(Added(j), Len(Added(j)))
           /\ Cardinality(PlacesOf(lines, "ret")) = Cardinality(ReturnsOf(i)) + 1
           /\ \A k \in PlacesOf(lines, "ret") : ExitAt(lines, k)
           /\ Cardinality(PlacesOf(lines, "mov $12 $15")) = Cardinality(ReturnsOf(i)) + 1
           /\ Cardinality(PlacesOf(lines, "pop $12")) = Cardinality(ReturnsOf(i)) + 1

\* a function whose body ends with a return statement, after another return
\* statement, was lowered
C13_Witness ==
    \E i \in LoweredFns :
        /\ Cardinality(ReturnsOf(i)) >= 2
        /\ i - 1 \in ReturnsOf(i)

\* the forms that are statements only, with the message of the error each
\* raises in an expression
ExpressionError ==
    [ while |-> "while loop cannot be used in expression",
      cond |-> "cond statement cannot be used in expression",
      switch |-> "switch statement cannot be used in expression",
      return |-> "return cannot be used in expression",
      local |-> "local variable cannot be declared in expression" ]

\* the messages of the checks a form makes on its own arguments before it
\* looks at the statement flag
ArgumentErrors ==
    { "wrong number of arguments", "first argument must be type", "invalid variable name" }

\* call i made call j itself
CallsDirectly(i, j) ==
    j \in Nested(i) /\ \A k \in Nested(i) : j \notin Nested(k)

\* the ids of the nodes of a list
IdsOf(kids) == { NodeId(kids[k]) : k \in 1..Len(kids) }

\* the ids of the statements of the bodies of a fn, while, cond or switch node
BodyIds(node) ==
    CASE HeadWord(node) = "fn" ->
           { NodeId(node.kids[k]) : k \in 5..Len(node.kids) }
      [] HeadWord(node) = "while" ->
           { NodeId(node.kids[k]) : k \in 3..Len(node.kids) }
      [] HeadWord(node) = "cond" ->
           UNION { IdsOf(node.kids[k].kids) :
                       k \in { x \in 3..Len(node.kids) : x % 2 = 1 } }
      [] HeadWord(node) = "switch" ->
           UNION { IdsOf(node.kids[k].kids) :
                       k \in { x \in 4..Len(node.kids) : x % 2 = 0 } }
      [] OTHER -> { }

\* call j lowered a node that stands directly in a body of the form of call i
InBodyOf(i, j) ==
    /\ Calls[i].head \in {"fn", "while", "cond", "switch"}
    /\ CallsDirectly(i, j)
    /\ Calls[j].id \in BodyIds(Calls[i].node)

\* call i raised the error of a statement form met in an expression
RejectedAsExpression(i) ==
    /\ Calls[i].head \in DOMAIN ExpressionError
    /\ Calls[i].err = ExpressionError[Calls[i].head]
    /\ Calls[i].errat = Calls[i].id

\* C14: while, cond, switch, return or local lowered with the statement
\* flag false raises a compile error and appends none of the code of the
\* form; directly inside the body of a function, of a while, or of a branch
\* of cond or switch, the statement flag is true and the form is accepted.
C14_StatementFormsOnlyInBodies ==
    /\ \A i \in 1..Len(Calls) :
           Calls[i].head \in DOMAIN ExpressionError /\ ~Calls[i].statement /\ ~Calls[i].root
               => /\ Calls[i].errat = Calls[i].id
                  /\ Calls[i].err \in ArgumentErrors \cup {ExpressionError[Calls[i].head]}
                  /\ \A k \in 1..Len(Added(i)) : CharAt(Added(i)[k], 1) = ";"
                  /\ Calls[i].sp_out = Calls[i].sp_in
                  /\ Nested(i) = { }
    /\ \A i, j \in 1..Len(Calls) :
           InBodyOf(i, j) => Calls[j].statement /\ ~RejectedAsExpression(j)

\* a local met as the argument of a call was rejected, after each of the
\* five forms was lowered without error in a body, a local in the body of
\* a function, of a while and of a branch of cond and of switch
C14_Witness ==
    /\ \E i \in 1..Len(Calls) :
           ~Calls[i].statement /\ RejectedAsExpression(i) /\ Calls[i].head = "local"
    /\ \A form \in DOMAIN ExpressionError :
           \E i, j \in 1..Len(Calls) :
               InBodyOf(i, j) /\ Calls[j].head = form /\ Calls[j].err = ""
    /\ \A outer \in {"fn", "while", "cond", "switch"} :
           \E i, j \in 1..Len(Calls) :
               InBodyOf(i, j) /\ Calls[i].head = outer /\ Calls[j].head = "local"
                              /\ Calls[j].err = ""

\* the functions and globals the files an import can open export: those
\* they declare without (@private) before the declaration
Exports ==
    [ p |-> [funcs |-> {"f"}, globals |-> {"g"}],
      q |-> [funcs |-> {"pub"}, globals |-> {"t"}] ]

\* the file a top-level node imports, "" when the node is no import of a
\* file with exports
ImportedPath(node) ==
    IF /\ node.type = "list" /\ Len(node.kids) = 2
       /\ HeadWord(node) = "import"
       /\ node.kids[2].type = "list" /\ AllInts(node.kids[2])
       /\ Chars(node.kids[2].kids, 1) \in DOMAIN Exports
    THEN Chars(node.kids[2].kids, 1)
    ELSE ""

\* the files the unit under way imports
ImportsOfUnit ==
    { ImportedPath(k_ast.kids[k]) : k \in 1..Len(k_ast.kids) } \ {""}

\* the definitions pass of the file under way has just ended
DefinitionsEnded == k_pc = "emission" /\ k_i = 1

\* C15: when the definitions pass of the importing unit ends, before any
\* function body is lowered, the tables of functions and of globals of the
\* unit hold the functions and globals each imported file exports.
C15_ImportsResolvedInDefinitions ==
    DefinitionsEnded =>
        \A path \in ImportsOfUnit :
            /\ \A f \in Exports[path].funcs : DictHas(k_comp.funcs, f)
            /\ \A g \in Exports[path].globals : DictHas(k_comp.vars[1], g)

\* the lines call i appended, the comment lines of comment mode aside
CodeAdded(i) == SelectSeq(Added(i), LAMBDA line : CharAt(line, 1) # ";")

\* the imports of a file with exports lowered in the emission pass
LoweredImports ==
    { i \in Lowered : Calls[i].head = "import" /\ ImportedPath(Calls[i].node) # "" }

\* the names the file of import call i exports
ExportedBy(i) ==
    Exports[ImportedPath(Calls[i].node)].funcs
        \cup Exports[ImportedPath(Calls[i].node)].globals

\* the names of the functions the unit under way defines itself
DefinedInUnit ==
    { k_ast.kids[k].kids[3].word :
          k \in { x \in 1..Len(k_ast.kids) :
                      /\ k_ast.kids[x].type = "list" /\ Len(k_ast.kids[x].kids) >= 4
                      /\ HeadWord(k_ast.kids[x]) = "fn"
                      /\ k_ast.kids[x].kids[3].type = "word" } }

\* the lines of the output of the unit under way
OutputLines == { k_comp.code[k] : k \in 1..Len(k_comp.code) }

\* C16: the import of a file adds to the output of the importing unit only
\* .import lines, one for each function and global the file exports, no
\* label, instruction, data directive or .export line of the file; and the
\* unit has no .export line for a function only the file defines.
C16_ImportAddsOnlyImportLines ==
    /\ \A i \in LoweredImports :
           /\ { CodeAdded(i)[k] : k \in 1..Len(CodeAdded(i)) }
                  = { ".import #" \o name : name \in ExportedBy(i) }
           /\ Len(CodeAdded(i)) = Cardinality(ExportedBy(i))
           /\ Calls[i].pre_out = Calls[i].pre_in
    /\ k_pc \in {"emission", "exit", "done"} =>
           \A path \in ImportsOfUnit :
               \A f \in Exports[path].funcs \ DefinedInUnit :
                   /\ ".export #" \o f \notin OutputLines
                   /\ "#" \o f \o ":" \notin OutputLines

\* a unit that imports a file with private declarations and calls a
\* function of the file was compiled to the end
C16_Witness ==
    /\ k_pc = "done"
    /\ \E i \in LoweredImports :
           /\ ImportedPath(Calls[i].node) = "q"
           /\ "jal #pub" \in OutputLines

\* the forms that declare a name in a table
Declarations == {"fn", "struct", "static"}

\* node k of the unit ast declares a function, a struct or a global
Declares(ast, k) ==
    /\ ast.kids[k].type = "list" /\ Len(ast.kids[k].kids) >= 3
    /\ HeadWord(ast.kids[k]) \in Declarations

\* the name node k of the unit declares
DeclaredName(ast, k) ==
    IF HeadWord(ast.kids[k]) = "struct" THEN ast.kids[k].kids[2].word
    ELSE ast.kids[k].kids[3].word

\* node k of the unit is the first declaration after a (@private)
AfterPrivate(ast, k) ==
    \E j \in 1..(k - 1) :
        /\ ast.kids[j].type = "list" /\ Len(ast.kids[j].kids) = 1
        /\ HeadWord(ast.kids[j]) = "@private"
        /\ \A x \in (j + 1)..(k - 1) : ~Declares(ast, x)

\* the table of a compiler a declaring form writes
TableOf(c, form) ==
    CASE form = "fn" -> c.funcs
      [] form = "struct" -> c.structs
      [] OTHER -> c.vars[1]

\* the last call of generate_expression lowered the import of a file with
\* exports
ImportJustLowered == Len(Calls) \in LoweredImports

\* the compiler of the unit under way as its definitions pass ended
OwnDeclarations == k_hist[Len(k_hist)]

\* C17: in import-resolution mode a (@private) leaves exactly the next fn,
\* struct or static declaration out of the tables the importer gets, and
\* the declarations after that one are recorded again unless a (@private)
\* of their own precedes them; out of import-resolution mode (@private)
\* changes neither the tables nor the output.
C17_PrivateHidesNextDeclaration ==
    /\ ImportJustLowered =>
           LET ast == parse(Files[ImportedPath(Calls[Len(Calls)].node)], 1, 1)
           IN \A k \in 1..Len(ast.kids) :
                  Declares(ast, k) =>
                      (DictHas(TableOf(k_comp, HeadWord(ast.kids[k])), DeclaredName(ast, k))
                          <=> \/ ~AfterPrivate(ast, k)
                              \/ DictHas(TableOf(OwnDeclarations, HeadWord(ast.kids[k])),
                                         DeclaredName(ast, k)))
    /\ ~k_comp.import_mode /\ ~k_comp.private
    /\ \A i \in 1..Len(Calls) :
           Calls[i].head = "@private" /\ Calls[i].err = ""
               => /\ CodeAdded(i) = << >>
                  /\ Calls[i].pre_out = Calls[i].pre_in
                  /\ Calls[i].sp_out = Calls[i].sp_in
    /\ DefinitionsEnded =>
           \A k \in 1..Len(k_ast.kids) :
               Declares(k_ast, k) =>
                   DictHas(TableOf(k_comp, HeadWord(k_ast.kids[k])), DeclaredName(k_ast, k))

\* the import of a file with a private function, global and struct, each
\* followed by a declaration of the same form that is not private, has
\* just been lowered
C17_Witness ==
    /\ ImportJustLowered
    /\ LET ast == parse(Files[ImportedPath(Calls[Len(Calls)].node)], 1, 1)
       IN \A form \in Declarations :
              \E j, k \in 1..Len(ast.kids) :
                  /\ j < k
                  /\ Declares(ast, j) /\ Declares(ast, k)
                  /\ HeadWord(ast.kids[j]) = form /\ HeadWord(ast.kids[k]) = form
                  /\ AfterPrivate(ast, j) /\ ~AfterPrivate(ast, k)
                  /\ ~DictHas(TableOf(k_comp, form), DeclaredName(ast, j))
                  /\ DictHas(TableOf(k_comp, form), DeclaredName(ast, k))

\* call i lowered the call of a declared function
IsCall(i) ==
    /\ Calls[i].type = "list"
    /\ Calls[i].head \notin {"", "fn", "struct", "static", "array", "import"}
    /\ DictHas(k_comp.funcs, Calls[i].head)

\* the calls call i made itself, in the order they were made
DirectCalls(i) == { j \in Nested(i) : CallsDirectly(i, j) }

RECURSIVE ArgumentLines(_, _)
\* the lines of the arguments of call i lowered from call from on: the
\* lowering of each, then the push of its value
ArgumentLines(i, from) ==
    IF \A j \in DirectCalls(i) : j < from THEN << >>
    ELSE LET j == CHOOSE x \in DirectCalls(i) :
                      x >= from /\ \A y \in DirectCalls(i) : y >= from => x <= y
         IN CodeAdded(j) \o << "push " \o Reg(Calls[i].r) >> \o ArgumentLines(i, j + 1)

\* the arguments of call i were lowered from the last to the first
ArgumentsRightToLeft(i) ==
    LET n == Len(Calls[i].node.kids) - 1
    IN /\ Cardinality(DirectCalls(i)) = n
       /\ \A j, k \in DirectCalls(i) :
              j < k =>
                  \E a, b \in 2..(n + 1) :
                      /\ b < a
                      /\ Calls[j].id = NodeId(Calls[i].node.kids[a])
                      /\ Calls[k].id = NodeId(Calls[i].node.kids[b])

\* the lines a call of call i's function leaves after its arguments, the
\* jump to the function spelt with the given mnemonic
CallLines(i, mnemonic) ==
    << mnemonic \o " #" \o Calls[i].head >>
        \o (IF Calls[i].r # 1 THEN << "mov $1 " \o Reg(Calls[i].r) >> ELSE << >>)
        \o [k \in 1..(Len(Calls[i].node.kids) - 1) |-> "pop $0"]

\* C18: a call (f a1 ... an) of a declared function with n parameters is
\* lowered to: for i from n down to 1 the lowering of ai, then push $r;
\* then the line call #f; then mov $1 $r only when r is not 1; then
\* exactly n pops.
C18_CallLowering ==
    \A i \in Lowered :
        IsCall(i) =>
            /\ ArgumentsRightToLeft(i)
            /\ CodeAdded(i) = ArgumentLines(i, 1) \o CallLines(i, "call")

\* what the source does: the same lines with the jump spelt jal
C18_CallLoweringAsEmitted ==
    \A i \in Lowered :
        IsCall(i) =>
            /\ ArgumentsRightToLeft(i)
            /\ CodeAdded(i) = ArgumentLines(i, 1) \o CallLines(i, "jal")

\* a call with two arguments, one of them a call itself, was lowered
C18_Witness ==
    \E i \in Lowered :
        /\ IsCall(i)
        /\ Cardinality(DirectCalls(i)) = 2
        /\ \E j \in DirectCalls(i) : IsCall(j)

RECURSIVE LinesOfCalls(_, _)
\* the lines the calls call i made itself appended, from call from on
LinesOfCalls(i, from) ==
    IF \A j \in DirectCalls(i) : j < from THEN << >>
    ELSE LET j == CHOOSE x \in DirectCalls(i) :
                      x >= from /\ \A y \in DirectCalls(i) : y >= from => x <= y
         IN CodeAdded(j) \o LinesOfCalls(i, j + 1)

\* the first call call i made itself
FirstCall(i) == CHOOSE j \in DirectCalls(i) : \A k \in DirectCalls(i) : j <= k

\* the while statements lowered in the emission pass
LoweredWhiles == { i \in Lowered : Calls[i].head = "while" /\ Calls[i].statement }

\* the locals bound in the frame of the loop of call i: those declared in
\* its body and in the branches of cond and switch in it, outside the
\* loops nested in it
LocalsOfLoop(i) ==
    { j \in Nested(i) :
          /\ Calls[j].head = "local"
          /\ j # FirstCall(i)
          /\ \A k \in Nested(i) : Calls[k].head = "while" => j \notin Nested(k) }

\* C19: (while c body...) as a statement is lowered to, in this order: the
\* label of the loop; the lowering of c; a bf to the end label; the
\* lowering of each statement of the body; one pop for each local bound in
\* the frame of the loop; a b to the label of the loop; the end label.  The
\* frame of the loop is off the scope stack afterwards.
C19_WhileLowering ==
    \A i \in LoweredWhiles :
        LET name == "#__while_" \o Calls[i].id
        IN /\ Calls[FirstCall(i)].id = NodeId(Calls[i].node.kids[2])
           /\ ~Calls[FirstCall(i)].statement
           /\ Cardinality(DirectCalls(i)) = Len(Calls[i].node.kids) - 1
           /\ \A j, k \in DirectCalls(i) :
                  j < k =>
                      \E a, b \in 2..Len(Calls[i].node.kids) :
                          /\ a < b
                          /\ Calls[j].id = NodeId(Calls[i].node.kids[a])
                          /\ Calls[k].id = NodeId(Calls[i].node.kids[b])
           /\ CodeAdded(i)
                  = << name \o ":" >>
                    \o CodeAdded(FirstCall(i))
                    \o << "bf " \o name \o "_end" >>
                    \o LinesOfCalls(i, FirstCall(i) + 1)
                    \o [k \in 1..Cardinality(LocalsOfLoop(i)) |-> "pop $0"]
                    \o << "b " \o name, name \o "_end:" >>
           /\ Calls[i].scopes_out = Calls[i].scopes_in
           /\ Calls[i].sp_out = Calls[i].sp_in

\* a loop with two locals or more in its frame was lowered
C19_Witness ==
    \E i \in LoweredWhiles : Cardinality(LocalsOfLoop(i)) >= 2

\* the line defines a label the compiler minted
MintedLabel(line) ==
    /\ Len(line) > 9
    /\ CharAt(line, Len(line)) = ":"
    /\ \E kind \in {"#__while_", "#__cond_", "#__switch_", "#__bool_", "#__data_"} :
           Len(line) > Len(kind) /\ SubSeq(line, 1, Len(kind)) = kind

\* the places of the output of the unit under way where a minted label is
\* defined
MintedPlaces == { k \in 1..Len(k_comp.code) : MintedLabel(k_comp.code[k]) }

\* C20: within one compilation unit no label the compiler minted is
\* defined more than once, the labels of the nodes the str macro makes
\* included.
C20_MintedLabelsDistinct ==
    \A a, b \in MintedPlaces : a # b => k_comp.code[a] # k_comp.code[b]

\* a unit with three str forms, two of them on one line, a data form, and
\* so four data labels, was compiled to the end
C20_Witness ==
    /\ k_pc = "done"
    /\ Cardinality({ k \in MintedPlaces : SubSeq(k_comp.code[k], 1, 8) = "#__data_" }) >= 4


\* the names of the globals the unit under way declares itself
StaticsOfUnit ==
    { k_ast.kids[k].kids[3].word :
          k \in { x \in 1..Len(k_ast.kids) :
                      /\ k_ast.kids[x].type = "list" /\ Len(k_ast.kids[x].kids) >= 3
                      /\ HeadWord(k_ast.kids[x]) = "static"
                      /\ k_ast.kids[x].kids[3].type = "word" } }

\* the calls of generate_expression made in the definitions pass
Recorded == { i \in 1..Len(Calls) : Calls[i].definitions_mode }

\* call i of the emission pass failed itself with the given message
FailedWith(i, message) ==
    /\ ~Calls[i].definitions_mode
    /\ Calls[i].err = message /\ Calls[i].errat = Calls[i].id

\* C23: the definitions pass only records the top-level declarations: it
\* lowers no node of a function body and leaves the output empty, so an
\* error of a body is raised in the emission pass only; when it ends every
\* function, struct and global of the unit is in its table, so that a body
\* may name a function or a global the unit declares further down.
C23_DefinitionsPassRecordsOnly ==
    /\ \A i \in Recorded :
           /\ Calls[i].root
           /\ Nested(i) = {}
           /\ Calls[i].code_out = << >>
           /\ Calls[i].head # "import" /\ Calls[i].err # "" => Calls[i].errat = Calls[i].id
    /\ DefinitionsEnded =>
           /\ k_comp.code = << >>
           /\ \A k \in 1..Len(k_ast.kids) :
                  Declares(k_ast, k) =>
                      DictHas(TableOf(k_comp, HeadWord(k_ast.kids[k])), DeclaredName(k_ast, k))
    /\ \A i \in 1..Len(Calls) :
           /\ Calls[i].type = "list" /\ Calls[i].head \in DefinedInUnit
                  => ~FailedWith(i, "undefined function")
           /\ Calls[i].type = "word" /\ Calls[i].node.word \in StaticsOfUnit
                  => ~FailedWith(i, "undefined variable")

\* a unit whose first function calls a function and sets a global the unit
\* declares after it was compiled to the end, and its definitions pass
\* recorded the three declarations
C23_Witness ==
    /\ k_pc = "done"
    /\ \E i, j \in Lowered :
           /\ i < j
           /\ Calls[i].head = "fn" /\ Calls[j].head = "fn"
           /\ "jal #" \o Calls[j].node.kids[3].word
                  \in { Added(i)[k] : k \in 1..Len(Added(i)) }
    /\ \E i \in Lowered, j \in Recorded :
           /\ Calls[i].head = "set-var" /\ Calls[j].head = "static"
           /\ Calls[i].node.kids[2].word = Calls[j].node.kids[3].word
           /\ \E f \in LoweredFns : i \in Nested(f)
    /\ Cardinality(Recorded) = 3


\* the top-level static forms of the unit under way that have a value
Statics ==
    { k \in 1..Len(k_ast.kids) :
          /\ k_ast.kids[k].type = "list" /\ Len(k_ast.kids[k].kids) = 4
          /\ HeadWord(k_ast.kids[k]) = "static"
          /\ k_ast.kids[k].kids[3].type = "word" }

\* the number of elements of the static form k: those of a list of
\* integers, one for a scalar
ElementsOf(k) ==
    IF k_ast.kids[k].kids[4].type = "list" THEN Len(k_ast.kids[k].kids[4].kids) ELSE 1

\* C24: a static declared with a list of n integers is recorded with length
\* n and (len-var name) emits mov n $r; a scalar static has length 1.
C24_StaticLengthIsElementCount ==
    k_pc \in {"emission", "done"} =>
        \A k \in Statics :
            LET name == k_ast.kids[k].kids[3].word
            IN /\ DictHas(k_comp.vars[1], name)
                      => DictGet(k_comp.vars[1], name).length = ElementsOf(k)
               /\ \A i \in Lowered :
                      Calls[i].head = "len-var" /\ Len(Calls[i].node.kids) = 2
                          /\ Calls[i].node.kids[2].type = "word"
                          /\ Calls[i].node.kids[2].word = name
                          => CodeAdded(i) = << "mov " \o ToString(ElementsOf(k))
                                                  \o " " \o Reg(Calls[i].r) >>


\* call i lowered a top-level array form of a type, a name and a list of
\* integers
ArrayForm(i) ==
    /\ Calls[i].root /\ Calls[i].head = "array"
    /\ Len(Calls[i].node.kids) = 4
    /\ Calls[i].node.kids[2].type = "word" /\ Calls[i].node.kids[2].word \in DOMAIN TYPE_SIZES
    /\ Calls[i].node.kids[3].type = "word"
    /\ Calls[i].node.kids[4].type = "list" /\ AllInts(Calls[i].node.kids[4])

\* the line is a data directive
IsDirective(line) == \E d \in {".byte ", ".word ", ".dword "} : SubSeq(line, 1, Len(d)) = d

\* C26: a well-formed top-level array form is accepted by both passes, and
\* the emission pass emits for it the label of its name followed by data
\* directives only.
C26_ArrayFormAccepted ==
    \A i \in 1..Len(Calls) :
        ArrayForm(i) =>
            /\ Calls[i].err = ""
            /\ ~Calls[i].definitions_mode =>
                   \E at \in 1..Len(CodeAdded(i)) :
                       /\ CodeAdded(i)[at] = "#" \o Calls[i].node.kids[3].word \o ":"
                       /\ at < Len(CodeAdded(i))
                       /\ \A x \in (at + 1)..Len(CodeAdded(i)) : IsDirective(CodeAdded(i)[x])


RECURSIVE LocalsHeld(_, _)
\* the number of bindings of local variables in the frames of a scope stack
\* from frame number from on, the parameters of the function, bound at the
\* offsets 8, 12, ..., aside
LocalsHeld(scopes, from) ==
    IF from > Len(scopes) THEN 0
    ELSE Len(SelectSeq(scopes[from], LAMBDA b : b.v.offset < 8)) + LocalsHeld(scopes, from + 1)

\* the local declarations lowered as statements
LoweredLocals == { i \in Lowered : Calls[i].head = "local" }

\* C25: at every point of the emission pass inside a function sp_offset is
\* at most 0 and is -4 times the number of local bindings held in the
\* frames pushed since the function was entered; each local lowers
\* sp_offset by exactly 4 and binds its variable in the innermost frame at
\* the lowered value.
C25_OffsetCountsLocals ==
    /\ \A i \in 1..Len(Calls) :
           ~Calls[i].definitions_mode /\ Len(Calls[i].vars_in) >= 2 =>
               /\ Calls[i].sp_in <= 0
               /\ Calls[i].sp_in = -4 * LocalsHeld(Calls[i].vars_in, 2)
               /\ Calls[i].err = "" =>
                      /\ Calls[i].sp_out <= 0
                      /\ Calls[i].sp_out = -4 * LocalsHeld(Calls[i].vars_out, 2)
    /\ \A i \in LoweredLocals :
           LET name == Calls[i].node.kids[3].word
               top == Len(Calls[i].vars_in)
           IN /\ Calls[i].sp_out = Calls[i].sp_in - 4
              /\ Len(Calls[i].vars_out) = top
              /\ \A n \in 1..(top - 1) : Calls[i].vars_out[n] = Calls[i].vars_in[n]
              /\ ~DictHas(Calls[i].vars_in[top], name)
              /\ DictHas(Calls[i].vars_out[top], name)
              /\ DictGet(Calls[i].vars_out[top], name).offset = Calls[i].sp_out
              /\ Len(Calls[i].vars_out[top]) = Len(Calls[i].vars_in[top]) + 1

\* a function with a parameter declared a local in its own frame and two
\* more in the frame of a while body, and the body of the while was left
C25_Witness ==
    \E w \in LoweredWhiles :
        /\ Calls[w].sp_in = -4
        /\ \E p \in 1..Len(Calls[w].vars_in[2]) : Calls[w].vars_in[2][p].v.offset = 8
        /\ \E i \in LoweredLocals :
               /\ i \in Nested(w)
               /\ Calls[i].sp_out = -12
               /\ Len(Calls[i].vars_out) = 3
        /\ Calls[w].sp_out = -4


\* the calls of the emission pass that lowered the use of a variable by
\* its name
Uses == { i \in 1..Len(Calls) : ~Calls[i].definitions_mode /\ Calls[i].type = "word"
                                    /\ CharAt(Calls[i].node.word, 1) # "&" }

\* the frames of the scope stack call i met that bind its name
FramesOf(i) ==
    { n \in 1..Len(Calls[i].vars_in) : DictHas(Calls[i].vars_in[n], Calls[i].node.word) }

\* the binding of the name of call i in the frame pushed last among those
\* that bind it
Visible(i) ==
    DictGet(Calls[i].vars_in[CHOOSE n \in FramesOf(i) : \A x \in FramesOf(i) : x <= n],
            Calls[i].node.word)

\* the line of the use i that tells the binding it read: the label of a
\* global, the offset from $12 of a local or a parameter
BindingRead(i) == CodeAdded(i)[IF Visible(i).global THEN 1 ELSE 2]

\* C29: a use of a name reads the binding of the frame pushed last among
\* the frames that bind the name, and is 'undefined variable' when none
\* does; a while and a fn leave the scope stack as they met it, so that a
\* local of a while body shadows a local, a parameter or a global of the
\* same name in the body only.
C29_InnermostBindingWins ==
    /\ \A i \in Uses :
           /\ FramesOf(i) = {} <=> FailedWith(i, "undefined variable")
           /\ FramesOf(i) # {} /\ Calls[i].err = "" =>
                  BindingRead(i) =
                      IF Visible(i).global
                      THEN "mov #" \o Calls[i].node.word \o " " \o Reg(Calls[i].r + 1)
                      ELSE OffsetLine(Visible(i).offset, Calls[i].r + 1)
    /\ \A i \in Lowered :
           Calls[i].head \in {"while", "fn"} => Calls[i].vars_out = Calls[i].vars_in

\* the use j of a name comes after the while w and reads another place
\* than the use i of the name in the body of w
ShadowedIn(w, i, j) ==
    /\ i \in Nested(w) /\ j > w
    /\ Calls[i].node.word = Calls[j].node.word
    /\ Calls[i].err = "" /\ Calls[j].err = ""
    /\ Len(Calls[i].vars_in) = Len(Calls[j].vars_in) + 1
    /\ BindingRead(i) # BindingRead(j)

\* a while body declared locals with the names of a local of the function,
\* of a parameter and of a global; each name read the local of the body
\* inside the body and the outer binding after the while
C29_Witness ==
    \E w \in LoweredWhiles :
        /\ \E i, j \in Uses :
               ShadowedIn(w, i, j) /\ Visible(j).global
        /\ \E i, j \in Uses :
               ShadowedIn(w, i, j) /\ ~Visible(j).global /\ Visible(j).offset >= 8
        /\ \E i, j \in Uses :
               ShadowedIn(w, i, j) /\ ~Visible(j).global /\ Visible(j).offset < 0


\* the line assemble took last
LastLine == assembled[1].node

\* the bytes assemble appended for the line it took last
Appended == SubSeq(code, assembled[1].at + 1, Len(code))

\* byte number k, from the lowest, of the value v
ByteOf(v, k) == (v \div (256 ^ k)) % 256

\* the little-endian 32-bit field of an immediate as assemble leaves it:
\* the value of a number, the placeholder of a symbol reference
Field(imm) ==
    IF imm.data = "label" THEN << 255, 255, 255, 255 >>
    ELSE [k \in 1..4 |-> ByteOf(imm.num, k - 1)]

\* the opcode with the register in the low nibble of its last byte
WithRegister(opcode, reg) ==
    [k \in 1..Len(opcode) |->
         IF k < Len(opcode) THEN opcode[k]
         ELSE (opcode[k] \div 16) * 16 + BitOr(opcode[k] % 16, reg)]

\* the bytes of an instruction line by the layout of its shape
Layout(node) ==
    LET opcode == INSTRUCTIONS[node.mn].opcode
        shape == INSTRUCTIONS[node.mn].operands
    IN CASE shape = "rr" -> opcode \o << node.regs[1] * 16 + node.regs[2] >>
         [] shape = "r" -> WithRegister(opcode, node.regs[1])
         [] shape \in {"ri", "ir"} -> WithRegister(opcode, node.regs[1]) \o Field(node.imms[1])
         [] shape = "i" -> opcode \o Field(node.imms[1])
         [] shape = "ii" -> opcode \o Field(node.imms[1]) \o Field(node.imms[2])
         [] OTHER -> opcode

\* C21: for every mnemonic of the opcode table and all registers 0..15 the
\* bytes the assembler appends follow the layout of the shape: rr is the
\* opcode and one byte (r1<<4)|r2; r is the opcode with the register in
\* the low nibble of its last byte, so that push $12 is 0x20 0x1C; ri and
\* ir are the r layout and the little-endian 32-bit immediate; i and ii
\* are the opcode and one or two little-endian 32-bit immediates.
C21_ShapeLayout ==
    pc = "assemble" /\ IsInstr(LastLine) =>
        /\ Appended = Layout(LastLine)
        /\ LastLine = Instr("push", << 12 >>, << >>) => Appended = << 32, 28 >>

\* a line of the shape was assembled last
EncodedOf(shape) ==
    /\ pc = "assemble" /\ IsInstr(LastLine)
    /\ INSTRUCTIONS[LastLine.mn].operands = shape

\* push $12 was assembled after another push
C21_Witness ==
    /\ EncodedOf("r")
    /\ assembled[1].at = 2
    /\ LastLine.mn = "push" /\ LastLine.regs = << 12 >>
    /\ code = << 32, 28, 32, 28 >>


\* the size in bytes of the values of a data directive
SizeOf(kind) ==
    CASE kind = "d_byte" -> 1
      [] kind = "d_word" -> 2
      [] OTHER -> 4

\* the data directive with a number for its value that assemble took last
DirectiveTaken ==
    /\ pc = "assemble" /\ assembled # << >>
    /\ LastLine.data \in {"d_byte", "d_word", "d_dword"}
    /\ LastLine.imms[1].data = "number"

\* the last line is the directive of the compiled unit (static uint32 x K)
\* and the line before it was the label of the unit
StaticTaken(K) ==
    /\ DirectiveTaken
    /\ LastLine.imms[1].num = K
    /\ DictHas(symbols_def, "x")
    /\ DictGet(symbols_def, "x") = assembled[1].at + pos_offset
    /\ Len(CompiledStatic(K)) = 3
    /\ CompiledStatic(K)[1] = ".export #x"
    /\ ReadLine(CompiledStatic(K)[2]) = LabelLine("x")
    /\ ReadLine(CompiledStatic(K)[3]) = LastLine

\* C22: a data directive .byte, .word or .dword v [n] appends exactly n
\* copies, 1 when n is absent, of the little-endian encoding of v in 1, 2
\* or 4 bytes and nothing else; so the unit (static uint32 x K), compiled
\* and assembled, has the 4 little-endian bytes of K at the address of
\* the label x.
C22_DirectiveBytes ==
    /\ DirectiveTaken =>
           LET n == IF LastLine.amount = -1 THEN 1 ELSE LastLine.amount
               size == SizeOf(LastLine.data)
           IN /\ Len(Appended) = n * size
              /\ \A j \in 1..Len(Appended) :
                     Appended[j] = ByteOf(LastLine.imms[1].num, (j - 1) % size)
    /\ \A K \in StaticValues :
           StaticTaken(K) =>
               SubSeq(code, DictGet(symbols_def, "x") - pos_offset + 1,
                            DictGet(symbols_def, "x") - pos_offset + 4)
                   = << ByteOf(K, 0), ByteOf(K, 1), ByteOf(K, 2), ByteOf(K, 3) >>

\* the unit (static uint32 x 287454020) was compiled and assembled: the
\* bytes 44 33 22 11 stand at the label x
C22_Witness ==
    /\ StaticTaken(287454020)
    /\ CompiledStatic(287454020) = << ".export #x", "#x:", ".dword 287454020" >>
    /\ code = << 68, 51, 34, 17 >>
    /\ DictGet(symbols_def, "x") = 0


\* the symbol references of linked files to a name the file neither
\* defines nor imports
ForeignSites ==
    { site \in sites :
          /\ site.file \in Linked
          /\ ~DictHas(files[site.file].defs, site.symbol)
          /\ site.symbol \notin files[site.file].imports }

\* the symbol references of linked files to a name the file does not
\* define and no file both defines and exports
UnexportedSites ==
    { site \in sites :
          /\ site.file \in Linked
          /\ ~DictHas(files[site.file].defs, site.symbol)
          /\ Exporters(site.symbol) = {} }

\* a link pass with the log writes wrote into the 4 bytes at buffer offset off
WrittenAt(writes, off) == \E n \in 1..Len(writes) : Overlap(writes[n].at, off)

FrameUses == { i \in Uses : Calls[i].err = "" /\ ~Visible(i).global }

\* the line `add` or `sub` of the use i, which makes the address of the
\* variable from $12
AddressLine(i) == Len(Calls[i].code_in) + 2

\* the slot of the stack at the given offset from $12, 0 when $15 has not
\* reached it
SlotAt(offset) ==
    IF vm_fp - offset \div 4 \in 1..Len(vm_stack) THEN vm_fp - offset \div 4 ELSE 0

\* the declaration of the local the use i reads: the last one lowered
\* before the use with its name and its offset
DeclarationOf(i) ==
    CHOOSE j \in LoweredLocals :
        /\ j < i
        /\ Calls[j].node.kids[3].word = Calls[i].node.word
        /\ Calls[j].sp_out = Visible(i).offset
        /\ \A x \in LoweredLocals :
               ( /\ x < i
                 /\ Calls[x].node.kids[3].word = Calls[i].node.word
                 /\ Calls[x].sp_out = Visible(i).offset ) => x <= j

\* the line of the push of the local declaration j
PushLine(j) == Len(Calls[j].code_out)

\* the machine is at the address line of the use i of a local
AtUseOfLocal(i) ==
    /\ i \in FrameUses /\ Visible(i).offset < 0
    /\ vm_pc = AddressLine(i)

\* C27: on every path of the output that reaches a use of a local, the
\* address $12 + offset made from the offset the compiler recorded is the
\* slot the push of the declaration of that local wrote, also when locals
\* are declared before it in branches of cond or switch that were not
\* taken, or in while bodies.
C27_OffsetsAgreeWithStack ==
    \A i \in 1..Len(Calls) :
        AtUseOfLocal(i) =>
            /\ SlotAt(Visible(i).offset) # 0
            /\ vm_stack[SlotAt(Visible(i).offset)] = ValueSlot(PushLine(DeclarationOf(i)))

\* the calls of declared functions lowered by the compiler
LoweredCalls == { i \in Lowered : IsCall(i) }

\* the line of the jump of the call i
JumpLine(i) ==
    Len(Calls[i].code_out) - (Len(Calls[i].node.kids) - 1) - (IF Calls[i].r # 1 THEN 1 ELSE 0)

\* the line of the push of argument k, from 0, of the call i
ArgumentPush(i, k) ==
    LET j == CHOOSE x \in DirectCalls(i) : Calls[x].id = NodeId(Calls[i].node.kids[k + 2])
    IN Len(Calls[j].code_out) + 1

\* the machine has just taken the prologue of a function
AfterPrologue ==
    /\ vm_pc \in 2..Len(Program)
    /\ Program[vm_pc - 1] = "mov $15 $12"

\* the call the frame of the machine was entered by; the caller outside
\* the program has none
EnteredBy ==
    { i \in LoweredCalls :
          /\ vm_fp >= 2
          /\ vm_stack[vm_fp - 1] = ReturnSlot(JumpLine(i)) }

\* the parameters of the function call i lowered
ParamsOf(i) == Calls[i].node.kids[4].kids

====
